---- MODULE Spec2Model ----
\* Model of the filtering, scoring and selection engine of the arXiv newsletter
\* (src/arxiv_newsletter/filter.py) with the configuration it reads
\* (src/arxiv_newsletter/config.py).
\*
\* Strings are sequences of one-character strings, so that lower-casing,
\* substring tests and prefix tests are computed the way Python computes them.
\* Real numbers are fixed point: weights, thresholds and similarities are in
\* hundredths (0.6 is 60), scores and contributions in ten-thousandths
\* (0.6 is 6000), so that weight * similarity is exact.
EXTENDS Integers, Sequences, FiniteSets, TLC

VARIABLES
    config,            \* Config.config as read through the Config properties
    papers,            \* the candidate Paper objects handed to the filter (mutable score / match_reason)
    reference_papers,  \* the reference corpus handed to the filter
    excluded_count,    \* the tally of _apply_exclusions
    surviving,         \* positions (in papers) of the candidates left by _apply_exclusions
    scored,            \* the scoring loop's locals, per position of papers
    filtered_papers,   \* the returned list, as positions in papers
    pc,                \* the position of the run: "start", "excluded", "returned", ...
    user_config,       \* what yaml.safe_load reads from the configuration file
    args,              \* the parsed command line of main
    cache,             \* the files of NewsletterCache
    steps,             \* the pipeline steps main has executed, in order
    stdout,            \* the guidance main has printed, in order
    method_locals      \* the local variables of a single method call under study

filter_vars ==
    <<config, papers, reference_papers, excluded_count, surviving, scored, filtered_papers>>

cli_vars == <<user_config, args, cache, steps, stdout>>

vars == <<filter_vars, pc, cli_vars, method_locals>>

\* ------------------------------------------------------------------ bounds
\* Longest candidate list drawn.
MaxLen == 3

\* Longest author name drawn character by character.
MaxNameLen == 4

\* ------------------------------------------------------------------ strings
UpperAlpha == <<"A","B","C","D","E","F","G","H","I","J","K","L","M",
                "N","O","P","Q","R","S","T","U","V","W","X","Y","Z">>
LowerAlpha == <<"a","b","c","d","e","f","g","h","i","j","k","l","m",
                "n","o","p","q","r","s","t","u","v","w","x","y","z">>
Digits == {"0","1","2","3","4","5","6","7","8","9"}

Range(s) == {s[i] : i \in DOMAIN s}

UpperChars == Range(UpperAlpha)

LowerChars == Range(LowerAlpha)

\* the sequence of Op(s[i]), as a tuple
Map(Op(_), s) == SubSeq([i \in DOMAIN s |-> Op(s[i])], 1, Len(s))

\* the lower-case letter of every upper-case letter
lower_table ==
    "A" :> "a" @@ "B" :> "b" @@ "C" :> "c" @@ "D" :> "d" @@ "E" :> "e" @@ "F" :> "f"
    @@ "G" :> "g" @@ "H" :> "h" @@ "I" :> "i" @@ "J" :> "j" @@ "K" :> "k" @@ "L" :> "l"
    @@ "M" :> "m" @@ "N" :> "n" @@ "O" :> "o" @@ "P" :> "p" @@ "Q" :> "q" @@ "R" :> "r"
    @@ "S" :> "s" @@ "T" :> "t" @@ "U" :> "u" @@ "V" :> "v" @@ "W" :> "w" @@ "X" :> "x"
    @@ "Y" :> "y" @@ "Z" :> "z"

\* str.lower() on one character
lower_char(c) == IF c \in UpperChars THEN lower_table[c] ELSE c

\* str.lower()
lower(s) == Map(lower_char, s)

\* Python's `sub in s` on strings
contains(s, sub) ==
    \E i \in 0..(Len(s) - Len(sub)) : SubSeq(s, i + 1, i + Len(sub)) = sub

\* str.startswith
startswith(s, prefix) ==
    Len(prefix) <= Len(s) /\ SubSeq(s, 1, Len(prefix)) = prefix

\* f"{paper.title} {paper.abstract}"
search_text(paper) == paper.title \o <<" ">> \o paper.abstract

\* \w and \s of Python's re module on the characters used here
is_word_char(c) ==
    \/ c \in UpperChars
    \/ c \in LowerChars
    \/ c \in Digits
    \/ c = "_"

is_space_char(c) == c \in {" ", "\t", "\n"}

\* re.sub(r'[^\w\s]', ' ', s)
punct_char(c) == IF is_word_char(c) \/ is_space_char(c) THEN c ELSE " "

punct_to_space(s) == Map(punct_char, s)

\* re.sub(r'\s+', ' ', s): every maximal run of whitespace becomes one space
RECURSIVE collapse_spaces(_)
collapse_spaces(s) ==
    IF s = <<>> THEN <<>>
    ELSE IF is_space_char(Head(s))
         THEN IF Len(s) > 1 /\ is_space_char(s[2])
              THEN collapse_spaces(Tail(s))
              ELSE <<" ">> \o collapse_spaces(Tail(s))
         ELSE <<Head(s)>> \o collapse_spaces(Tail(s))

\* str.strip()
RECURSIVE lstrip(_)
lstrip(s) ==
    IF s # <<>> /\ is_space_char(Head(s)) THEN lstrip(Tail(s)) ELSE s

RECURSIVE rstrip(_)
rstrip(s) ==
    IF s # <<>> /\ is_space_char(s[Len(s)]) THEN rstrip(SubSeq(s, 1, Len(s) - 1)) ELSE s

strip(s) == rstrip(lstrip(s))

\* the normalization with the trimming done first, before the punctuation is replaced
normalize_strip_first(name) ==
    collapse_spaces(punct_to_space(strip(lower(name))))

\* PaperFilter._normalize_author_name
normalize_author_name(name) ==
    strip(collapse_spaces(punct_to_space(lower(name))))

\* ------------------------------------------------------------------ helpers
Min(a, b) == IF a <= b THEN a ELSE b

Max(a, b) == IF a >= b THEN a ELSE b

\* the positions 1..n of a list, in order
Positions(n) == [i \in 1..n |-> i]

\* Python's seq[:n]
slice_to(seq, n) ==
    IF n >= 0 THEN SubSeq(seq, 1, Min(n, Len(seq)))
    ELSE SubSeq(seq, 1, Max(Len(seq) + n, 0))

\* Paper.__init__: score and match_reason start as 0.0 and ""
Paper(id, title, authors, abstract, categories) ==
    [id |-> id, title |-> title, authors |-> authors, abstract |-> abstract,
     categories |-> categories, score |-> 0, match_reason |-> <<>>]

\* ------------------------------------------------------------------ matching
\* the author matching that reports the last matching paper author
author_matches_last_hit(paper_authors, target_authors) ==
    LET normalized_targets == {normalize_author_name(target_authors[j]) : j \in DOMAIN target_authors}
        hit(i) == \E target \in normalized_targets :
                     LET normalized == normalize_author_name(paper_authors[i])
                     IN  contains(normalized, target) \/ contains(target, normalized)
        hits == {i \in DOMAIN paper_authors : hit(i)}
    IN  IF hits = {} THEN [found |-> FALSE, author |-> <<>>]
        ELSE [found |-> TRUE,
              author |-> paper_authors[CHOOSE i \in hits : \A k \in hits : i >= k]]

\* PaperFilter._author_matches: (match_found, matched_author_name)
author_matches(paper_authors, target_authors) ==
    LET normalized_targets == {normalize_author_name(target_authors[j]) : j \in DOMAIN target_authors}
        hit(i) == \E target \in normalized_targets :
                     LET normalized == normalize_author_name(paper_authors[i])
                     IN  contains(normalized, target) \/ contains(target, normalized)
        hits == {i \in DOMAIN paper_authors : hit(i)}
    IN  IF hits = {} THEN [found |-> FALSE, author |-> <<>>]
        ELSE [found |-> TRUE,
              author |-> paper_authors[CHOOSE i \in hits : \A k \in hits : i <= k]]

\* PaperFilter._keyword_matches: the list of matched keywords (its length is the count)
keyword_matches(text, keywords) ==
    LET text_lower == lower(text)
        in_text(keyword) == contains(text_lower, lower(keyword))
    IN  SelectSeq(keywords, in_text)

\* ------------------------------------------------------------------ exclusions
\* the rules with the keyword test moved to the front
exclusion_order_keywords_first == <<"keywords", "max_authors", "min_authors", "categories">>

\* the order in which _apply_exclusions tests its four rules
exclusion_order == <<"max_authors", "min_authors", "keywords", "categories">>

\* the rules with the category rule testing `in` instead of startswith
violates_category_anywhere(rule, paper, cfg) ==
    CASE rule = "max_authors" ->
            cfg.max_authors > 0 /\ Len(paper.authors) > cfg.max_authors
      [] rule = "min_authors" ->
            cfg.min_authors > 0 /\ Len(paper.authors) < cfg.min_authors
      [] rule = "keywords" ->
            /\ cfg.exclude_keywords # <<>>
            /\ \E k \in DOMAIN cfg.exclude_keywords :
                  contains(lower(search_text(paper)), lower(cfg.exclude_keywords[k]))
      [] rule = "categories" ->
            /\ cfg.exclude_categories # <<>>
            /\ \E c \in DOMAIN paper.categories : \E x \in DOMAIN cfg.exclude_categories :
                  contains(paper.categories[c], cfg.exclude_categories[x])

\* one exclusion rule of _apply_exclusions, evaluated on its own
violates(rule, paper, cfg) ==
    CASE rule = "max_authors" ->
            cfg.max_authors > 0 /\ Len(paper.authors) > cfg.max_authors
      [] rule = "min_authors" ->
            cfg.min_authors > 0 /\ Len(paper.authors) < cfg.min_authors
      [] rule = "keywords" ->
            /\ cfg.exclude_keywords # <<>>
            /\ \E k \in DOMAIN cfg.exclude_keywords :
                  contains(lower(search_text(paper)), lower(cfg.exclude_keywords[k]))
      [] rule = "categories" ->
            /\ cfg.exclude_categories # <<>>
            /\ \E c \in DOMAIN paper.categories : \E x \in DOMAIN cfg.exclude_categories :
                  startswith(paper.categories[c], cfg.exclude_categories[x])

\* the rule whose `continue` drops the paper when the rules are tested in `order`, or "none"
first_violation(paper, cfg, order) ==
    LET bad == {i \in DOMAIN order : violates(order[i], paper, cfg)}
    IN  IF bad = {} THEN "none"
        ELSE order[CHOOSE i \in bad : \A k \in bad : i <= k]

\* the loop of _apply_exclusions with its rules tested in `order`
exclusions_in_order(ps, cfg, order) ==
    LET verdict(paper) == first_violation(paper, cfg, order)
        verdicts == Map(verdict, ps)
        keep(i) == verdicts[i] = "none"
    IN  [filtered |-> SelectSeq(Positions(Len(ps)), keep),
         excluded_count |->
            [r \in Range(exclusion_order) |->
                Cardinality({i \in DOMAIN ps : verdicts[i] = r})]]

\* exclusion rules that let every paper through
apply_exclusions_keeping_all(ps, cfg) ==
    [filtered |-> Positions(Len(ps)),
     excluded_count |-> [r \in Range(exclusion_order) |-> 0]]

\* PaperFilter._apply_exclusions
apply_exclusions(ps, cfg) == exclusions_in_order(ps, cfg, exclusion_order)

no_exclusions == [r \in Range(exclusion_order) |-> 0]

\* ------------------------------------------------------------------ configuration
\* Config.DEFAULT_CONFIG, the settings the fetcher, the filter and the cache read
\* (the nested dicts "advanced" and "exclusions" are flattened). not_a_list is
\* the set of keys whose value is not a Python list, for the isinstance tests
\* of the validation.
DEFAULT_CONFIG ==
    [authors |-> <<>>, categories |-> <<>>, keywords |-> <<>>,
     days_back |-> 7, max_papers |-> 20,
     min_similarity_score |-> 30, selection_mode |-> "threshold",
     use_semantic_similarity |-> TRUE, author_weight |-> 60,
     max_authors |-> 0, min_authors |-> 0,
     exclude_keywords |-> <<>>, exclude_categories |-> <<>>,
     not_a_list |-> {}]

\* Config._load_config: the defaults updated with the keys of the user's YAML
\* file (yaml is a function from the keys the file sets to their values;
\* the empty function when there is no file or the file is empty)
load_config(yaml) ==
    [k \in DOMAIN DEFAULT_CONFIG |->
        IF k \in DOMAIN yaml THEN yaml[k] ELSE DEFAULT_CONFIG[k]]

\* the validation without its days_back check
validate_config_without_days_back(cfg) ==
    /\ "authors" \notin cfg.not_a_list
    /\ "categories" \notin cfg.not_a_list
    /\ cfg.max_papers >= 1
    /\ 0 <= cfg.min_similarity_score /\ cfg.min_similarity_score <= 100
    /\ 0 <= cfg.author_weight /\ cfg.author_weight <= 100
    /\ cfg.selection_mode \in {"threshold", "fill", "None"}

\* the validation without its author_weight range check
validate_config_without_weight(cfg) ==
    /\ "authors" \notin cfg.not_a_list
    /\ "categories" \notin cfg.not_a_list
    /\ cfg.days_back >= 1
    /\ cfg.max_papers >= 1
    /\ 0 <= cfg.min_similarity_score /\ cfg.min_similarity_score <= 100
    /\ cfg.selection_mode \in {"threshold", "fill", "None"}

\* Config._validate_config: TRUE when nothing is raised, FALSE when it raises
\* ValueError ("None" is Python's None, a YAML null)
validate_config(cfg) ==
    /\ "authors" \notin cfg.not_a_list
    /\ "categories" \notin cfg.not_a_list
    /\ cfg.days_back >= 1
    /\ cfg.max_papers >= 1
    /\ 0 <= cfg.min_similarity_score /\ cfg.min_similarity_score <= 100
    /\ 0 <= cfg.author_weight /\ cfg.author_weight <= 100
    /\ cfg.selection_mode \in {"threshold", "fill", "None"}

\* Config.selection_mode: self.config.get("selection_mode", "threshold")
selection_mode(cfg) == cfg.selection_mode

\* ------------------------------------------------------------------ cache
\* the decimal digits in order
DecimalDigits == <<"0","1","2","3","4","5","6","7","8","9">>

\* the characters of the model in the order of their code points
Ascii ==
    <<"\t", "\n", " ", "\"", ",", "-", ".">> \o DecimalDigits \o UpperAlpha
       \o <<"\\", "_">> \o LowerAlpha

\* the rank of a character in the code point order
ord_table == [c \in Range(Ascii) |-> CHOOSE i \in DOMAIN Ascii : Ascii[i] = c]

ord(c) == ord_table[c]

\* a < b for two Python strings: the first differing character decides, a
\* proper prefix comes first
RECURSIVE str_less(_, _)
str_less(a, b) ==
    IF b = <<>> THEN FALSE
    ELSE IF a = <<>> THEN TRUE
    ELSE IF Head(a) = Head(b) THEN str_less(Tail(a), Tail(b))
    ELSE ord(Head(a)) < ord(Head(b))

\* the list as it is, not sorted
unsorted_strings(strings) == strings

\* where sorted() puts x among the already sorted strings
RECURSIVE insert_sorted(_, _)
insert_sorted(x, done) ==
    IF done = <<>> THEN <<x>>
    ELSE IF str_less(x, Head(done)) THEN <<x>> \o done
    ELSE <<Head(done)>> \o insert_sorted(x, Tail(done))

\* sorted(strings)
RECURSIVE sorted_strings(_)
sorted_strings(strings) ==
    IF strings = <<>> THEN <<>>
    ELSE insert_sorted(strings[Len(strings)], sorted_strings(SubSeq(strings, 1, Len(strings) - 1)))

\* json.dumps of one character inside a string
dumps_char(c) ==
    CASE c = "\"" -> <<"\\", "\"">>
      [] c = "\\" -> <<"\\", "\\">>
      [] c = "\n" -> <<"\\", "n">>
      [] c = "\t" -> <<"\\", "t">>
      [] OTHER -> <<c>>

\* the concatenation of a sequence of strings
RECURSIVE concat(_)
concat(parts) == IF parts = <<>> THEN <<>> ELSE Head(parts) \o concat(Tail(parts))

\* json.dumps of a string
dumps_str(str) == <<"\"">> \o concat(Map(dumps_char, str)) \o <<"\"">>

\* the decimal digits of n >= 0
RECURSIVE digits_of(_)
digits_of(n) ==
    IF n < 10 THEN <<DecimalDigits[n + 1]>>
    ELSE digits_of(n \div 10) \o <<DecimalDigits[(n % 10) + 1]>>

\* json.dumps of an int
dumps_int(n) == IF n < 0 THEN <<"-">> \o digits_of(0 - n) ELSE digits_of(n)

\* ", ".join(parts)
RECURSIVE join_comma(_)
join_comma(parts) ==
    IF parts = <<>> THEN <<>>
    ELSE IF Len(parts) = 1 THEN parts[1]
    ELSE parts[1] \o <<",", " ">> \o join_comma(Tail(parts))

\* json.dumps of a list of strings
dumps_list(strings) == <<"[">> \o join_comma(Map(dumps_str, strings)) \o <<"]">>

\* "key": value
dumps_item(key, value) == dumps_str(key) \o <<":", " ">> \o value

\* the cache_key dict of _get_config_hash
cache_key(cfg) ==
    [authors |-> sorted_strings(cfg.authors),
     categories |-> sorted_strings(cfg.categories),
     keywords |-> sorted_strings(cfg.keywords),
     days_back |-> cfg.days_back,
     max_authors |-> cfg.max_authors,
     min_authors |-> cfg.min_authors,
     exclude_keywords |-> sorted_strings(cfg.exclude_keywords)]

\* json.dumps(cache_key, sort_keys=True)
key_str(key) ==
    <<"{">>
    \o join_comma(<<
          dumps_item(<<"a","u","t","h","o","r","s">>, dumps_list(key.authors)),
          dumps_item(<<"c","a","t","e","g","o","r","i","e","s">>, dumps_list(key.categories)),
          dumps_item(<<"d","a","y","s","_","b","a","c","k">>, dumps_int(key.days_back)),
          dumps_item(<<"e","x","c","l","u","d","e","_","k","e","y","w","o","r","d","s">>,
                     dumps_list(key.exclude_keywords)),
          dumps_item(<<"k","e","y","w","o","r","d","s">>, dumps_list(key.keywords)),
          dumps_item(<<"m","a","x","_","a","u","t","h","o","r","s">>, dumps_int(key.max_authors)),
          dumps_item(<<"m","i","n","_","a","u","t","h","o","r","s">>, dumps_int(key.min_authors))>>)
    \o <<"}">>

\* NewsletterCache._get_config_hash. The MD5 digest is represented by the
\* string it is computed from: equal strings give equal digests, and unequal
\* strings are taken to give unequal digests.
get_config_hash(cfg) == key_str(cache_key(cfg))

\* the cache is fresh for at most this many hours (main passes max_age_hours=24)
max_age_hours == 24

\* a cache directory without files; a file is <<>> when it does not exist and
\* <<content>> when it does
empty_cache == [papers |-> <<>>, reference |-> <<>>, filtered |-> <<>>, metadata |-> <<>>]

\* the dict the cache stores for a fetched paper, read back by
\* Paper(from_dict=...): score and match_reason are not stored
paper_dict(paper) ==
    Paper(paper.id, paper.title, paper.authors, paper.abstract, paper.categories)

\* a validity test that never looks at the age of the cache
is_valid_any_age(c, cfg, age_hours) ==
    /\ c.papers # <<>>
    /\ c.metadata # <<>>
    /\ c.metadata[1].config_hash = get_config_hash(cfg)

\* NewsletterCache.is_valid(config, max_age_hours), age_hours being the time
\* since the timestamp of the metadata
is_valid(c, cfg, age_hours) ==
    /\ c.papers # <<>>
    /\ c.metadata # <<>>
    /\ c.metadata[1].config_hash = get_config_hash(cfg)
    /\ age_hours <= max_age_hours

\* NewsletterCache.save_papers: papers.json and cache_metadata.json are
\* rewritten (the dict of a paper leaves out score and match_reason)
save_papers(c, ps, cfg) ==
    [c EXCEPT !.papers = <<Map(paper_dict, ps)>>,
              !.metadata = <<[config_hash |-> get_config_hash(cfg),
                              paper_count |-> Len(ps),
                              days_back |-> cfg.days_back]>>]

\* NewsletterCache.save_reference_papers
save_reference_papers(c, ps) == [c EXCEPT !.reference = <<Map(paper_dict, ps)>>]

\* NewsletterCache.save_filtered_papers (the dict of a paper keeps score and
\* match_reason)
save_filtered_papers(c, ps) == [c EXCEPT !.filtered = <<ps>>]

\* ------------------------------------------------------------------ similarity
\* the values cosine_similarity is taken to return (hundredths)
SimValues == {0, 30, 100}

\* the matrices cosine_similarity may return for n papers and r reference papers
CosineMatrices(n, r) == [1..n -> [1..r -> SimValues]]

\* the similarity to the first reference paper only
first_similarities(cos) == [i \in DOMAIN cos |-> cos[i][1]]

\* similarities.max(axis=1)
max_similarities(cos) ==
    [i \in DOMAIN cos |-> CHOOSE v \in Range(cos[i]) : \A u \in Range(cos[i]) : u <= v]

\* np.zeros(len(papers))
zeros(n) == [i \in 1..n |-> 0]

\* PaperFilter.compute_similarity_scores for n papers and r reference papers: the
\* arrays it may return. The vectorizer either raises (all zeros) or
\* cosine_similarity returns some matrix.
compute_similarity_scores(n, r) ==
    IF r = 0 \/ n = 0 THEN {zeros(n)}
    ELSE {max_similarities(cos) : cos \in CosineMatrices(n, r)} \cup {zeros(n)}

\* PaperFilter.compute_similarity_scores for n papers and r reference papers,
\* path by path: the early return, the except clause, or the matrix
\* cosine_similarity returned and its row maxima
similarity_paths(n, r) ==
    IF r = 0 \/ n = 0
    THEN {[path |-> "empty", similarities |-> <<>>, result |-> zeros(n)]}
    ELSE {[path |-> "computed", similarities |-> cos, result |-> max_similarities(cos)] :
             cos \in CosineMatrices(n, r)}
         \cup {[path |-> "except", similarities |-> <<>>, result |-> zeros(n)]}

\* ------------------------------------------------------------------ scoring
\* 0.2 per matched keyword
keyword_step == 2000

\* the cap 0.5 of the keyword contribution
keyword_cap == 5000

\* a similarity is reported in match_reason when it is above 0.3
report_above == 30

Reason(kind, author, keywords, similarity) ==
    [kind |-> kind, author |-> author, keywords |-> keywords, similarity |-> similarity]

\* the label used when no reason was recorded
fallback_reason == <<Reason("Category match", <<>>, <<>>, 0)>>

\* the author contribution read from the wrong setting
author_score_wrong_key(found, cfg) == IF found THEN cfg.min_similarity_score * 100 ELSE 0

\* the author contribution: score += self.config.author_weight
author_score(found, cfg) == IF found THEN cfg.author_weight * 100 ELSE 0

\* the keyword contribution: min(keyword_count * 0.2, 0.5) when keyword_count > 0
keyword_score(keyword_count) ==
    IF keyword_count > 0 THEN Min(keyword_count * keyword_step, keyword_cap) ELSE 0

\* the similarity contribution without its (1 - author_weight) weight
similarity_score_unweighted(sim_score, cfg) == sim_score * 100

\* the similarity contribution: sim_score * (1 - self.config.author_weight)
similarity_score(sim_score, cfg) == sim_score * (100 - cfg.author_weight)

\* the threshold test without its author-match escape
selected_by_score_only(score, found, cfg) ==
    IF selection_mode(cfg) = "threshold"
    THEN score >= cfg.min_similarity_score * 100
    ELSE TRUE

\* the threshold test applied whatever the selection mode
selected_ignoring_mode(score, found, cfg) ==
    score >= cfg.min_similarity_score * 100 \/ found

\* the selection test of the scoring loop
selected(score, found, cfg) ==
    IF selection_mode(cfg) = "threshold"
    THEN score >= cfg.min_similarity_score * 100 \/ found
    ELSE TRUE

\* the two matching calls of one pass of the scoring loop
match_paper(paper, cfg) ==
    [author |-> author_matches(paper.authors, cfg.authors),
     keywords |-> keyword_matches(search_text(paper), cfg.keywords)]

\* one pass of the scoring loop that counts a missing similarity as a neutral 0.5
score_paper_neutral_similarity(m, cfg, sim) ==
    LET a == author_score(m.author.found, cfg)
        k == keyword_score(Len(m.keywords))
        s == similarity_score(IF sim.present THEN sim.value ELSE 50, cfg)
        score == a + k + s
        reasons ==
            (IF m.author.found THEN <<Reason("Author", m.author.author, <<>>, 0)>> ELSE <<>>)
            \o (IF Len(m.keywords) > 0
                THEN <<Reason("Keywords", <<>>, m.keywords, 0)>> ELSE <<>>)
            \o (IF sim.present /\ sim.value > report_above
                THEN <<Reason("Similarity", <<>>, <<>>, sim.value)>> ELSE <<>>)
    IN  [scored |-> TRUE, author_match |-> m.author.found, keyword_count |-> Len(m.keywords),
         sim_score |-> IF sim.present THEN sim.value ELSE 0,
         author_part |-> a, keyword_part |-> k, similarity_part |-> s,
         score |-> score,
         match_reason |-> IF reasons # <<>> THEN reasons ELSE fallback_reason,
         selected |-> selected(score, m.author.found, cfg)]

\* one pass of the scoring loop that reports every positive similarity
score_paper_reports_any_similarity(m, cfg, sim) ==
    LET a == author_score(m.author.found, cfg)
        k == keyword_score(Len(m.keywords))
        s == IF sim.present THEN similarity_score(sim.value, cfg) ELSE 0
        score == a + k + s
        reasons ==
            (IF m.author.found THEN <<Reason("Author", m.author.author, <<>>, 0)>> ELSE <<>>)
            \o (IF Len(m.keywords) > 0
                THEN <<Reason("Keywords", <<>>, m.keywords, 0)>> ELSE <<>>)
            \o (IF sim.present /\ sim.value > 0
                THEN <<Reason("Similarity", <<>>, <<>>, sim.value)>> ELSE <<>>)
    IN  [scored |-> TRUE, author_match |-> m.author.found, keyword_count |-> Len(m.keywords),
         sim_score |-> IF sim.present THEN sim.value ELSE 0,
         author_part |-> a, keyword_part |-> k, similarity_part |-> s,
         score |-> score,
         match_reason |-> IF reasons # <<>> THEN reasons ELSE fallback_reason,
         selected |-> selected(score, m.author.found, cfg)]

\* one pass of the scoring loop of filter_and_rank, m being the pass's matching
\* calls; sim = [present, value] is similarity_scores[i], present = FALSE when
\* similarity_scores is None
score_paper(m, cfg, sim) ==
    LET a == author_score(m.author.found, cfg)
        k == keyword_score(Len(m.keywords))
        s == IF sim.present THEN similarity_score(sim.value, cfg) ELSE 0
        score == a + k + s
        reasons ==
            (IF m.author.found THEN <<Reason("Author", m.author.author, <<>>, 0)>> ELSE <<>>)
            \o (IF Len(m.keywords) > 0
                THEN <<Reason("Keywords", <<>>, m.keywords, 0)>> ELSE <<>>)
            \o (IF sim.present /\ sim.value > report_above
                THEN <<Reason("Similarity", <<>>, <<>>, sim.value)>> ELSE <<>>)
    IN  [scored |-> TRUE, author_match |-> m.author.found, keyword_count |-> Len(m.keywords),
         sim_score |-> IF sim.present THEN sim.value ELSE 0,
         author_part |-> a, keyword_part |-> k, similarity_part |-> s,
         score |-> score,
         match_reason |-> IF reasons # <<>> THEN reasons ELSE fallback_reason,
         selected |-> selected(score, m.author.found, cfg)]

\* the locals of a candidate the scoring loop never reached
not_scored ==
    [scored |-> FALSE, author_match |-> FALSE, keyword_count |-> 0,
     sim_score |-> 0, author_part |-> 0, keyword_part |-> 0, similarity_part |-> 0,
     score |-> 0, match_reason |-> <<>>, selected |-> FALSE]

\* ------------------------------------------------------------------ ranking
\* where list.sort(key=score, reverse=True) puts x among the already sorted:
\* after every element whose score is >= x's (the sort is stable)
RECURSIVE insert_desc(_, _, _)
insert_desc(x, sorted, score_of) ==
    IF sorted = <<>> THEN <<x>>
    ELSE IF score_of[Head(sorted)].score >= score_of[x].score
         THEN <<Head(sorted)>> \o insert_desc(x, Tail(sorted), score_of)
         ELSE <<x>> \o sorted

\* scored_papers.sort(key=lambda p: p.score, reverse=True)
RECURSIVE sort_desc_from(_, _, _)
sort_desc_from(todo, sorted, score_of) ==
    IF todo = <<>> THEN sorted
    ELSE sort_desc_from(Tail(todo), insert_desc(Head(todo), sorted, score_of), score_of)

\* reversed(sorted(..., key=score)): descending, but ties come out in reverse order
RECURSIVE reverse(_)
reverse(seq) == IF seq = <<>> THEN <<>> ELSE reverse(Tail(seq)) \o <<Head(seq)>>

sort_reversing_ties(seq, score_of) == sort_desc_from(reverse(seq), <<>>, score_of)

sort_by_score(seq, score_of) == sort_desc_from(seq, <<>>, score_of)

\* the cap taken one element too far
limit_off_by_one(seq, cfg) == slice_to(seq, cfg.max_papers + 1)

\* scored_papers[:self.config.max_papers]
limit_to_max_papers(seq, cfg) == slice_to(seq, cfg.max_papers)

\* ------------------------------------------------------------------ filter_and_rank
\* the position of p in the list of positions seq
index_of(seq, p) == CHOOSE i \in DOMAIN seq : seq[i] = p

\* the matching calls of the scoring loop, per position of ps from position p on
\* (nothing is matched for a paper the exclusions dropped)
RECURSIVE matching_loop(_, _, _, _)
matching_loop(ps, surv, cfg, p) ==
    IF p > Len(ps) THEN <<>>
    ELSE <<IF p \in Range(surv) THEN match_paper(ps[p], cfg)
           ELSE [author |-> [found |-> FALSE, author |-> <<>>], keywords |-> <<>>]>>
         \o matching_loop(ps, surv, cfg, p + 1)

\* a scoring loop that adds to the score the paper carries instead of starting
\* from 0
RECURSIVE scoring_loop_accumulating(_, _, _, _, _, _, _)
scoring_loop_accumulating(ps, surv, matches, cfg, use_sim, similarity_scores, p) ==
    IF p > Len(ps) THEN <<>>
    ELSE <<IF p \in Range(surv)
           THEN LET pass == score_paper(matches[p], cfg,
                               [present |-> use_sim,
                                value |-> IF use_sim
                                          THEN similarity_scores[index_of(surv, p)] ELSE 0])
                IN  [pass EXCEPT !.score = ps[p].score + pass.score]
           ELSE not_scored>>
         \o scoring_loop_accumulating(ps, surv, matches, cfg, use_sim, similarity_scores, p + 1)

\* the scoring loop of filter_and_rank over the survivors surv (positions in ps):
\* its locals per position of ps, from position p on
RECURSIVE scoring_loop(_, _, _, _, _, _, _)
scoring_loop(ps, surv, matches, cfg, use_sim, similarity_scores, p) ==
    IF p > Len(ps) THEN <<>>
    ELSE <<IF p \in Range(surv)
           THEN score_paper(matches[p], cfg,
                    [present |-> use_sim,
                     value |-> IF use_sim THEN similarity_scores[index_of(surv, p)] ELSE 0])
           ELSE not_scored>>
         \o scoring_loop(ps, surv, matches, cfg, use_sim, similarity_scores, p + 1)

\* PaperFilter.filter_and_rank: the outcomes it may have (one per array that
\* compute_similarity_scores may return): the papers as it leaves them, the
\* tally and the survivors of the exclusions, the locals of the scoring loop and
\* the list it returns (positions in ps)
filter_and_rank(ps, refs, cfg) ==
    LET ex == apply_exclusions(ps, cfg)
        surv == ex.filtered
        use_sim == cfg.use_semantic_similarity /\ refs # <<>>
        matches == matching_loop(ps, surv, cfg, 1)
        outcome(similarity_scores) ==
            LET locals == scoring_loop(ps, surv, matches, cfg, use_sim, similarity_scores, 1)
                is_selected(p) == locals[p].selected
                scored_papers == SelectSeq(surv, is_selected)
                sorted == sort_by_score(scored_papers, locals)
                rescored(p) == IF locals[p].scored
                               THEN [ps[p] EXCEPT !.score = locals[p].score,
                                                  !.match_reason = locals[p].match_reason]
                               ELSE ps[p]
            IN  [papers |-> Map(rescored, Positions(Len(ps))),
                 excluded_count |-> ex.excluded_count, surviving |-> surv,
                 scored |-> locals, result |-> limit_to_max_papers(sorted, cfg)]
    IN  IF ps = <<>>
        THEN {[papers |-> ps, excluded_count |-> no_exclusions, surviving |-> <<>>,
               scored |-> <<>>, result |-> <<>>]}
        ELSE IF surv = <<>>
        THEN {[papers |-> ps, excluded_count |-> ex.excluded_count, surviving |-> surv,
               scored |-> Map(LAMBDA p : not_scored, Positions(Len(ps))), result |-> <<>>]}
        ELSE IF use_sim
        THEN {outcome(sims) : sims \in compute_similarity_scores(Len(surv), Len(refs))}
        ELSE {outcome(<<>>)}

\* ------------------------------------------------------------------ malformed candidates
\* an entry of paper.authors that is None instead of a string
none_author == <<"None">>

\* _author_matches raises (None has no lower()): its loop reaches a None entry
\* before it has returned a match
author_matches_raises(paper_authors, target_authors) ==
    \E i \in DOMAIN paper_authors :
        /\ paper_authors[i] = none_author
        /\ ~author_matches(SubSeq(paper_authors, 1, i - 1), target_authors).found

\* the survivors (indices into surv) for which _author_matches raises
failing_survivors(ps, surv, cfg) ==
    {i \in DOMAIN surv : author_matches_raises(ps[surv[i]].authors, cfg.authors)}

\* paper.score = score; paper.match_reason = ...: a paper as the scoring loop
\* leaves it, entry being the loop's locals for it
rescore(paper, entry) ==
    IF entry.scored
    THEN [paper EXCEPT !.score = entry.score, !.match_reason = entry.match_reason]
    ELSE paper

\* filter_and_rank as an exception in its scoring loop leaves it, loop being the
\* locals of the loop: nothing is returned
interrupted(ps, ex, loop) ==
    [papers |-> Map(LAMBDA p : rescore(ps[p], loop[p]), Positions(Len(ps))),
     excluded_count |-> ex.excluded_count, surviving |-> ex.filtered,
     scored |-> loop, result |-> <<>>]

\* filter_and_rank when _author_matches raises for survivor number first: the
\* similarities were computed before the loop, the survivors before first have
\* their score and match_reason set
raised_outcomes(ps, refs, cfg, ex, first) ==
    LET use_sim == cfg.use_semantic_similarity /\ refs # <<>>
        done == SubSeq(ex.filtered, 1, first - 1)
    IN  {[raised |-> TRUE,
          outcome |-> interrupted(ps, ex,
                          scoring_loop(ps, done, matching_loop(ps, done, cfg, 1),
                                       cfg, use_sim, sims, 1))] :
            sims \in IF use_sim
                     THEN compute_similarity_scores(Len(ex.filtered), Len(refs))
                     ELSE {<<>>}}

\* filter_and_rank after its exclusions ex, failing being the survivors for
\* which _author_matches raises: the scoring loop has no exception handler, so
\* the first of them ends the call
scoring_outcomes(ps, refs, cfg, ex, failing) ==
    IF failing = {}
    THEN {[raised |-> FALSE, outcome |-> r] : r \in filter_and_rank(ps, refs, cfg)}
    ELSE raised_outcomes(ps, refs, cfg, ex,
                         CHOOSE i \in failing : \A k \in failing : i <= k)

untyped_after_exclusions(ps, refs, cfg, ex) ==
    scoring_outcomes(ps, refs, cfg, ex, failing_survivors(ps, ex.filtered, cfg))

\* PaperFilter.filter_and_rank on candidates whose author entries may be None:
\* the outcomes it may have, each a return or a raised exception
filter_and_rank_untyped(ps, refs, cfg) ==
    untyped_after_exclusions(ps, refs, cfg, apply_exclusions(ps, cfg))

\* ------------------------------------------------------------------ inputs
name_target == <<"J","o"," ","S","m">>
name_upper  == <<"J","O"," ","S","M">>
name_punct  == <<"J","o","-","S","m">>
name_other  == <<"A"," ","B">>
name_third  == <<"C",".","D">>

kw_dm == <<"d","m">>
kw_ai == <<"a","i">>
kw_ml == <<"M","L">>

cat_hep == <<"h","e","p">>
cat_csl == <<"c","s",".","L">>
cat_xcs == <<"x","c","s">>

\* candidates that differ in what the scorer sees
ScoringPool ==
    { Paper(1, <<"x">>, <<name_upper>>, <<"y">>, <<cat_hep>>),
      Paper(2, <<"D","M">>, <<name_other>>, <<"a","i">>, <<cat_hep>>),
      Paper(3, <<"x">>, <<name_other>>, <<>>, <<cat_csl>>),
      Paper(4, <<"d","m"," ","a","i">>, <<name_other, name_punct>>, <<"m","l">>, <<cat_hep>>) }

\* candidates that differ in what the exclusion rules see
ExclusionPool ==
    { Paper(11, <<"b","a">>, <<name_other>>, <<"d">>, <<cat_hep>>),
      Paper(12, <<"B","a","d">>, <<name_other, name_third, name_upper>>, <<"x">>, <<cat_csl>>),
      Paper(13, <<"o","k">>, <<name_other, name_third>>, <<>>, <<cat_xcs, cat_hep>>),
      Paper(14, <<"a">>, <<name_other, name_third>>, <<"b">>, <<cat_hep, cat_csl>>) }

\* a reference paper (a past paper of a followed author)
ReferencePaper == Paper(21, <<"d","m">>, <<name_target>>, <<"x">>, <<cat_hep>>)

ListsOver(pool) == UNION {[1..n -> pool] : n \in 0..MaxLen}

\* two users: one follows three keywords and excludes nothing, the other lists
\* one keyword twice and excludes papers with more than one author
UserProfiles ==
    { [keywords |-> <<kw_dm, kw_ai, kw_ml>>, max_authors |-> 0],
      [keywords |-> <<kw_dm, kw_dm>>, max_authors |-> 1] }

\* user settings for the scorer and the selector, kept when Config() accepts them
ScoringConfigs ==
    { c \in { [DEFAULT_CONFIG EXCEPT
                 !.authors = <<name_target>>,
                 !.keywords = user.keywords,
                 !.max_authors = user.max_authors,
                 !.selection_mode = mode,
                 !.author_weight = w,
                 !.min_similarity_score = thr,
                 !.max_papers = mp,
                 !.use_semantic_similarity = sem] :
              user \in UserProfiles,
              mode \in {"threshold", "fill"},
              w \in {0, 60, 100, 150},
              thr \in {30, 150},
              mp \in {0, 1, 2},
              sem \in BOOLEAN } :
        validate_config(c) }

\* user settings for the exclusion rules
ExclusionConfigs ==
    { [DEFAULT_CONFIG EXCEPT
          !.max_authors = ma, !.min_authors = mi,
          !.exclude_keywords = ek, !.exclude_categories = ec] :
      ma \in {-1, 0, 1, 2},
      mi \in {0, 2},
      ek \in {<<>>, <<<<"B","A","D">>>>, <<<<"z">>, <<"a"," ","b">>, <<"B","a","d">>>>},
      ec \in {<<>>, <<<<"c","s">>>>, <<<<"q">>, cat_hep>>} }

\* ------------------------------------------------------------------ specifications
InitCommon ==
    /\ excluded_count = no_exclusions
    /\ surviving = <<>>
    /\ scored = <<>>
    /\ filtered_papers = <<>>
    /\ pc = "start"
    /\ user_config = <<>>
    /\ args = <<>>
    /\ cache = <<>>
    /\ steps = <<>>
    /\ stdout = <<>>
    /\ method_locals = <<>>

\* a PaperFilter built on a validated Config, about to rank a candidate list
Init ==
    /\ config \in ScoringConfigs
    /\ papers \in ListsOver(ScoringPool)
    /\ reference_papers \in {<<>>, <<ReferencePaper>>}
    /\ InitCommon

\* paper_filter.filter_and_rank(papers, reference_papers)
FilterAndRank ==
    /\ pc = "start"
    /\ \E r \in filter_and_rank(papers, reference_papers, config) :
          /\ papers' = r.papers
          /\ excluded_count' = r.excluded_count
          /\ surviving' = r.surviving
          /\ scored' = r.scored
          /\ filtered_papers' = r.result
    /\ pc' = "returned"
    /\ UNCHANGED <<config, reference_papers, cli_vars, method_locals>>

Next == FilterAndRank

Spec == Init /\ [][Next]_vars

\* a PaperFilter about to apply its exclusion rules to a candidate list
InitExclusions ==
    /\ config \in ExclusionConfigs
    /\ papers \in ListsOver(ExclusionPool)
    /\ reference_papers = <<>>
    /\ InitCommon

\* paper_filter._apply_exclusions(papers)
ApplyExclusions ==
    /\ pc = "start"
    /\ LET ex == apply_exclusions(papers, config)
       IN  /\ surviving' = ex.filtered
           /\ excluded_count' = ex.excluded_count
    /\ pc' = "excluded"
    /\ UNCHANGED <<config, papers, reference_papers, scored, filtered_papers, cli_vars, method_locals>>

NextExclusions == ApplyExclusions

SpecExclusions == InitExclusions /\ [][NextExclusions]_vars

\* a PaperFilter built on a validated Config, about to rank a candidate list
\* with no reference papers (reference_papers is None or [])
InitNoReferences ==
    /\ config \in ScoringConfigs
    /\ papers \in ListsOver(ScoringPool)
    /\ reference_papers = <<>>
    /\ InitCommon

\* a second paper_filter.filter_and_rank(papers, reference_papers) on the same
\* Paper objects and the same configuration
FilterAndRankAgain ==
    /\ pc = "returned"
    /\ \E r \in filter_and_rank(papers, reference_papers, config) :
          /\ papers' = r.papers
          /\ excluded_count' = r.excluded_count
          /\ surviving' = r.surviving
          /\ scored' = r.scored
          /\ filtered_papers' = r.result
    /\ pc' = "returned_again"
    /\ UNCHANGED <<config, reference_papers, cli_vars, method_locals>>

NextNoReferences == FilterAndRank \/ FilterAndRankAgain

SpecNoReferences == InitNoReferences /\ [][NextNoReferences]_vars

\* candidates one of which has a None among its authors
MalformedPool ==
    { Paper(1, <<"x">>, <<name_upper>>, <<"y">>, <<cat_hep>>),
      Paper(2, <<"D","M">>, <<name_other>>, <<"a","i">>, <<cat_hep>>),
      Paper(5, <<"d","m">>, <<none_author, name_punct>>, <<"a","i">>, <<cat_hep>>),
      Paper(6, <<"d","m">>, <<name_punct, none_author>>, <<>>, <<cat_hep>>) }

\* a PaperFilter about to rank candidates that may be malformed
InitMalformed ==
    /\ config \in {c \in ScoringConfigs :
                      c.max_authors = 0 /\ c.author_weight = 60 /\ c.max_papers = 2}
    /\ papers \in ListsOver(MalformedPool)
    /\ reference_papers \in {<<>>, <<ReferencePaper>>}
    /\ InitCommon

\* paper_filter.filter_and_rank(papers, reference_papers): it returns, or an
\* exception leaves it
FilterAndRankUntyped ==
    /\ pc = "start"
    /\ \E r \in filter_and_rank_untyped(papers, reference_papers, config) :
          /\ papers' = r.outcome.papers
          /\ excluded_count' = r.outcome.excluded_count
          /\ surviving' = r.outcome.surviving
          /\ scored' = r.outcome.scored
          /\ filtered_papers' = r.outcome.result
          /\ pc' = IF r.raised THEN "raised" ELSE "returned"
    /\ UNCHANGED <<config, reference_papers, cli_vars, method_locals>>

NextMalformed == FilterAndRankUntyped

SpecMalformed == InitMalformed /\ [][NextMalformed]_vars

\* a second reference paper
OtherReferencePaper == Paper(22, <<"a","i">>, <<name_target>>, <<"y">>, <<cat_csl>>)

\* the reference corpora handed to compute_similarity_scores
ReferenceLists ==
    {<<>>, <<ReferencePaper>>, <<ReferencePaper, OtherReferencePaper>>}

\* candidates for compute_similarity_scores
SimilarityPool ==
    { Paper(2, <<"D","M">>, <<name_other>>, <<"a","i">>, <<cat_hep>>),
      Paper(3, <<"x">>, <<name_other>>, <<>>, <<cat_csl>>) }

\* a PaperFilter about to compute the similarity of a candidate list to a
\* reference corpus
InitSimilarity ==
    /\ config = [DEFAULT_CONFIG EXCEPT !.authors = <<name_target>>]
    /\ papers \in ListsOver(SimilarityPool)
    /\ reference_papers \in ReferenceLists
    /\ InitCommon

\* paper_filter.compute_similarity_scores(papers, reference_papers)
ComputeSimilarityScores ==
    /\ pc = "start"
    /\ \E taken \in similarity_paths(Len(papers), Len(reference_papers)) :
          method_locals' = taken
    /\ pc' = "computed"
    /\ UNCHANGED <<filter_vars, cli_vars>>

NextSimilarity == ComputeSimilarityScores

SpecSimilarity == InitSimilarity /\ [][NextSimilarity]_vars

\* the characters author names are drawn from: a letter in both cases, a
\* digit, two punctuation characters and two whitespace characters
NameChars == {"A", "a", "1", ".", "-", " ", "\t"}

\* author names, character by character
Names == UNION {[1..n -> NameChars] : n \in 0..MaxNameLen}

\* _normalize_author_name is about to be called on an author name
InitNormalize ==
    /\ config = DEFAULT_CONFIG
    /\ papers = <<>>
    /\ reference_papers = <<>>
    /\ excluded_count = no_exclusions
    /\ surviving = <<>>
    /\ scored = <<>>
    /\ filtered_papers = <<>>
    /\ pc = "start"
    /\ user_config = <<>>
    /\ args = <<>>
    /\ cache = <<>>
    /\ steps = <<>>
    /\ stdout = <<>>
    /\ method_locals \in {[name |-> name] : name \in Names}

\* normalized = self._normalize_author_name(name)
NormalizeAuthorName ==
    /\ pc = "start"
    /\ method_locals' =
          [name |-> method_locals.name,
           normalized |-> normalize_author_name(method_locals.name)]
    /\ pc' = "normalized"
    /\ UNCHANGED <<filter_vars, cli_vars>>

\* self._normalize_author_name(normalized): the normalization of a name that
\* is already normalized
NormalizeAuthorNameAgain ==
    /\ pc = "normalized"
    /\ method_locals' =
          [name |-> method_locals.name,
           normalized |-> method_locals.normalized,
           again |-> normalize_author_name(method_locals.normalized)]
    /\ pc' = "normalized_again"
    /\ UNCHANGED <<filter_vars, cli_vars>>

NextNormalize == NormalizeAuthorName \/ NormalizeAuthorNameAgain

SpecNormalize == InitNormalize /\ [][NextNormalize]_vars

\* author names as arXiv and the user write them
name_full        == <<"J","o","h","n"," ","S","m","i","t","h">>
name_abbreviated == <<"J","."," ","S","m","i","t","h">>
name_long        == <<"J","o"," ","S","m"," ","J","r">>
name_short       == <<"S","m">>

\* the names a candidate's author list is drawn from
AuthorPool == {name_upper, name_punct, name_other, name_full, name_abbreviated, name_long}

\* the followed authors of the configuration
TargetLists ==
    {<<>>, <<name_target>>, <<name_short>>, <<name_long>>, <<name_full>>,
     <<name_abbreviated>>, <<name_third, name_target>>}

\* a PaperFilter about to rank one candidate, for every author list of the
\* candidate and every list of followed authors
InitAuthors ==
    /\ config \in {[DEFAULT_CONFIG EXCEPT !.authors = targets] : targets \in TargetLists}
    /\ papers \in {<<Paper(1, <<"x">>, authors, <<"y">>, <<cat_hep>>)>> :
                      authors \in ListsOver(AuthorPool)}
    /\ reference_papers = <<>>
    /\ InitCommon

NextAuthors == FilterAndRank

SpecAuthors == InitAuthors /\ [][NextAuthors]_vars

\* names that normalize to the empty string: punctuation only, whitespace
\* only, and the empty name
name_dots  == <<".", ".">>
name_blank == <<" ">>
name_empty == <<>>

\* the names a candidate's author list is drawn from when some are blank
BlankPool == {name_other, name_upper, name_dots, name_blank, name_empty}

\* the followed authors when some are blank
BlankTargetLists ==
    {<<>>, <<name_target>>, <<name_dots>>, <<name_blank>>, <<name_third, name_dots>>}

\* a PaperFilter about to rank one candidate whose authors, or whose followed
\* authors, may have names without a letter or digit
InitBlankNames ==
    /\ config \in {[DEFAULT_CONFIG EXCEPT !.authors = targets] : targets \in BlankTargetLists}
    /\ papers \in {<<Paper(1, <<"x">>, authors, <<"y">>, <<cat_hep>>)>> :
                      authors \in ListsOver(BlankPool)}
    /\ reference_papers = <<>>
    /\ InitCommon

NextBlankNames == FilterAndRank

SpecBlankNames == InitBlankNames /\ [][NextBlankNames]_vars

\* ------------------------------------------------------------------ main
\* what the fetcher may find: an author match, a keyword match, neither
CliPool ==
    { Paper(1, <<"x">>, <<name_upper>>, <<"y">>, <<cat_hep>>),
      Paper(2, <<"D","M">>, <<name_other>>, <<"a","i">>, <<cat_hep>>),
      Paper(3, <<"x">>, <<name_other>>, <<>>, <<cat_csl>>) }

\* a configuration file that follows one author and two keywords
BaseYaml == [authors |-> <<name_target>>, keywords |-> <<kw_dm, kw_ai>>]

\* configuration files: none, the base file, and the base file with one more key
CliUserConfigs ==
    {<<>>, BaseYaml}
    \cup {BaseYaml @@ [selection_mode |-> m] : m \in {"threshold", "fill", "None", "bogus"}}
    \cup {BaseYaml @@ [author_weight |-> w] : w \in {0, 100, 101, -1}}
    \cup {BaseYaml @@ [min_similarity_score |-> t] : t \in {0, 100, 101, -1}}
    \cup {BaseYaml @@ [days_back |-> d] : d \in {0, 1}}
    \cup {BaseYaml @@ [max_papers |-> m] : m \in {0, 1}}
    \cup {BaseYaml @@ [not_a_list |-> {k}] : k \in {"authors", "categories", "keywords"}}
    \cup {BaseYaml @@ [exclude_keywords |-> <<<<"X">>>>]}

\* command lines: --days, --max-papers (<<>> when not given), --no-similarity,
\* --no-cache; never --clear-cache, --cache-info or --pdf-only
CliArgs ==
    { [days |-> <<>>, max_papers |-> <<>>, no_similarity |-> FALSE, no_cache |-> FALSE],
      [days |-> <<>>, max_papers |-> <<>>, no_similarity |-> FALSE, no_cache |-> TRUE],
      [days |-> <<>>, max_papers |-> <<>>, no_similarity |-> TRUE, no_cache |-> FALSE],
      [days |-> <<14>>, max_papers |-> <<1>>, no_similarity |-> FALSE, no_cache |-> FALSE] }

\* what an earlier run under BaseYaml left in the cache directory
PriorCache ==
    save_papers(empty_cache,
                <<Paper(2, <<"D","M">>, <<name_other>>, <<"a","i">>, <<cat_hep>>),
                  Paper(3, <<"x">>, <<name_other>>, <<>>, <<cat_csl>>)>>,
                load_config(BaseYaml))

CliCaches ==
    {empty_cache, PriorCache, save_reference_papers(PriorCache, <<ReferencePaper>>)}

\* the ages a cache may have when main looks at it (hours)
CacheAges == {0, max_age_hours, max_age_hours + 1}

\* main is entered with a command line, a configuration file and a cache directory
InitCli ==
    /\ user_config \in CliUserConfigs
    /\ args \in CliArgs
    /\ cache \in CliCaches
    /\ config = "None"
    /\ papers = <<>>
    /\ reference_papers = <<>>
    /\ excluded_count = no_exclusions
    /\ surviving = <<>>
    /\ scored = <<>>
    /\ filtered_papers = <<>>
    /\ steps = <<>>
    /\ stdout = <<>>
    /\ method_locals = <<>>
    /\ pc = "main"

\* the command-line overrides main writes into config.config
apply_overrides(cfg, a) ==
    [cfg EXCEPT
        !.days_back = IF a.days # <<>> THEN a.days[1] ELSE @,
        !.max_papers = IF a.max_papers # <<>> THEN a.max_papers[1] ELSE @,
        !.use_semantic_similarity = IF a.no_similarity THEN FALSE ELSE @]

\* main: config = Config(config_path=args.config) and the overrides. A
\* ValueError of the validation is caught by main's except clause: the error
\* is printed and main returns 1.
LoadConfig ==
    /\ pc = "main"
    /\ LET cfg == load_config(user_config)
       IN  IF validate_config(cfg)
           THEN /\ config' = apply_overrides(cfg, args)
                /\ pc' = "fetch"
                /\ UNCHANGED stdout
           ELSE /\ stdout' = Append(stdout, "Error")
                /\ pc' = "return_1"
                /\ UNCHANGED config
    /\ UNCHANGED <<papers, reference_papers, excluded_count, surviving, scored,
                   filtered_papers, user_config, args, cache, steps, method_locals>>

\* main, step 1: the papers are loaded from a valid cache or fetched; a fresh
\* fetch that finds nothing ends the run, any other is saved to the cache
FetchPapers ==
    /\ pc = "fetch"
    /\ \E age_hours \in CacheAges :
          LET cache_valid == ~args.no_cache /\ is_valid(cache, config, age_hours)
          IN  /\ method_locals' = [cache_valid |-> cache_valid]
              /\ IF cache_valid
                 THEN /\ papers' = cache.papers[1]
                      /\ steps' = Append(steps, "load_papers")
                      /\ pc' = "references"
                      /\ UNCHANGED <<cache, stdout>>
                 ELSE \E all_papers \in ListsOver(CliPool) :
                         /\ papers' = all_papers
                         /\ IF all_papers = <<>>
                            THEN /\ steps' = Append(steps, "fetch_all_papers")
                                 /\ stdout' = Append(stdout, "No papers found matching your criteria.")
                                 /\ pc' = "return_1"
                                 /\ UNCHANGED cache
                            ELSE /\ steps' = steps \o <<"fetch_all_papers", "save_papers">>
                                 /\ cache' = save_papers(cache, all_papers, config)
                                 /\ pc' = "references"
                                 /\ UNCHANGED stdout
    /\ UNCHANGED <<config, reference_papers, excluded_count, surviving, scored,
                   filtered_papers, user_config, args>>

\* main, step 2: the reference papers are loaded from the cache or fetched and
\* saved, when similarity is in use and authors are followed
FetchReferences ==
    /\ pc = "references"
    /\ IF config.use_semantic_similarity /\ config.authors # <<>>
       THEN IF method_locals.cache_valid /\ cache.reference # <<>>
                                         /\ cache.reference[1] # <<>>
            THEN /\ reference_papers' = cache.reference[1]
                 /\ steps' = Append(steps, "load_reference_papers")
                 /\ UNCHANGED cache
            ELSE \E fetched \in {<<>>, <<ReferencePaper>>} :
                    /\ reference_papers' = fetched
                    /\ steps' = steps \o <<"fetch_reference_papers", "save_reference_papers">>
                    /\ cache' = save_reference_papers(cache, fetched)
       ELSE /\ reference_papers' = <<>>
            /\ UNCHANGED <<cache, steps>>
    /\ pc' = "filter"
    /\ UNCHANGED <<config, papers, excluded_count, surviving, scored, filtered_papers,
                   user_config, args, stdout, method_locals>>

\* main, step 3: filter_and_rank; an empty result ends the run, any other is
\* saved to the cache
Filter ==
    /\ pc = "filter"
    /\ \E r \in filter_and_rank(papers, reference_papers, config) :
          /\ papers' = r.papers
          /\ excluded_count' = r.excluded_count
          /\ surviving' = r.surviving
          /\ scored' = r.scored
          /\ filtered_papers' = r.result
          /\ IF r.result = <<>>
             THEN /\ steps' = Append(steps, "filter_and_rank")
                  /\ stdout' = Append(stdout, "No papers passed the relevance threshold.")
                  /\ pc' = "return_1"
                  /\ UNCHANGED cache
             ELSE /\ steps' = steps \o <<"filter_and_rank", "save_filtered_papers">>
                  /\ cache' = save_filtered_papers(cache,
                                  Map(LAMBDA p : r.papers[p], r.result))
                  /\ pc' = "generate"
                  /\ UNCHANGED stdout
    /\ UNCHANGED <<config, reference_papers, user_config, args, method_locals>>

\* main, step 4: the newsletter is generated and main returns 0
Generate ==
    /\ pc = "generate"
    /\ steps' = Append(steps, "generate")
    /\ pc' = "return_0"
    /\ UNCHANGED <<filter_vars, user_config, args, cache, stdout, method_locals>>

NextCli == LoadConfig \/ FetchPapers \/ FetchReferences \/ Filter \/ Generate

SpecCli == InitCli /\ [][NextCli]_vars

\* ------------------------------------------------------------------ Config
\* the assignments config.config[key] = value made on a loaded Config
ConfigEdits ==
    {<<"days_back", d>> : d \in {-3, 0, 1}}
    \cup {<<"min_similarity_score", t>> : t \in {-10, 0, 100, 150}}
    \cup {<<"max_papers", 0>>}

\* a configuration file is about to be loaded
InitConfig ==
    /\ user_config \in CliUserConfigs
    /\ config = "None"
    /\ papers = <<>>
    /\ reference_papers = <<>>
    /\ excluded_count = no_exclusions
    /\ surviving = <<>>
    /\ scored = <<>>
    /\ filtered_papers = <<>>
    /\ args = <<>>
    /\ cache = <<>>
    /\ steps = <<>>
    /\ stdout = <<>>
    /\ method_locals = <<>>
    /\ pc = "start"

\* config = Config(config_path): _load_config, then _validate_config
Construct ==
    /\ pc = "start"
    /\ LET cfg == load_config(user_config)
       IN  IF validate_config(cfg)
           THEN config' = cfg /\ pc' = "loaded"
           ELSE pc' = "raised_on_load" /\ UNCHANGED config
    /\ UNCHANGED <<papers, reference_papers, excluded_count, surviving, scored,
                   filtered_papers, cli_vars, method_locals>>

\* config.config[key] = value
SetItem ==
    /\ pc = "loaded"
    /\ \E edit \in ConfigEdits : config' = [config EXCEPT ![edit[1]] = edit[2]]
    /\ pc' = "modified"
    /\ UNCHANGED <<papers, reference_papers, excluded_count, surviving, scored,
                   filtered_papers, cli_vars, method_locals>>

\* config._validate_config(), called again on the modified Config
Validate ==
    /\ pc = "modified"
    /\ pc' = IF validate_config(config) THEN "validated" ELSE "raised_on_validate"
    /\ UNCHANGED <<filter_vars, cli_vars, method_locals>>

NextConfig == Construct \/ SetItem \/ Validate

SpecConfig == InitConfig /\ [][NextConfig]_vars

\* ------------------------------------------------------------------ cache fingerprint
\* list entries: two that sort against their order of writing, and one that
\* reads like their JSON list when its quotes are not escaped
entry_b == <<"b">>
entry_B == <<"B">>
entry_quoted == <<"B", "\"", ",", " ", "\"", "b">>

\* configurations that differ in the seven settings of the fingerprint, or
\* only in the order of their lists
FingerprintConfigs ==
    { [DEFAULT_CONFIG EXCEPT
          !.authors = au, !.categories = ca, !.keywords = kw, !.exclude_keywords = ek,
          !.days_back = d, !.max_authors = ma, !.min_authors = mi] :
      au \in {<<entry_b, entry_B>>, <<entry_B, entry_b>>, <<entry_quoted>>},
      ca \in {<<cat_hep, cat_csl>>, <<cat_csl, cat_hep>>},
      kw \in {<<>>, <<entry_b>>},
      ek \in {<<>>, <<entry_b>>},
      d \in {1, 11},
      ma \in {0, 1},
      mi \in {0, 1} }

\* a cache about to be written under a configuration
InitFingerprint ==
    /\ config \in FingerprintConfigs
    /\ papers = <<ReferencePaper>>
    /\ cache = empty_cache
    /\ reference_papers = <<>>
    /\ excluded_count = no_exclusions
    /\ surviving = <<>>
    /\ scored = <<>>
    /\ filtered_papers = <<>>
    /\ user_config = <<>>
    /\ args = <<>>
    /\ steps = <<>>
    /\ stdout = <<>>
    /\ method_locals = <<>>
    /\ pc = "start"

\* cache.save_papers(papers, config); method_locals keeps the config argument
SavePapers ==
    /\ pc = "start"
    /\ cache' = save_papers(cache, papers, config)
    /\ method_locals' = [config |-> config]
    /\ pc' = "saved"
    /\ UNCHANGED <<filter_vars, user_config, args, steps, stdout>>

\* the next run loads its own configuration
Reconfigure ==
    /\ pc = "saved"
    /\ config' \in FingerprintConfigs
    /\ pc' = "reconfigured"
    /\ UNCHANGED <<papers, reference_papers, excluded_count, surviving, scored,
                   filtered_papers, cli_vars, method_locals>>

\* cache.is_valid(config) on a cache that was just written: current_hash is
\* compared with the hash in the metadata
IsValid ==
    /\ pc = "reconfigured"
    /\ method_locals' =
          [config |-> method_locals.config,
           current_hash |-> get_config_hash(config),
           valid |-> is_valid(cache, config, 0)]
    /\ pc' = "checked"
    /\ UNCHANGED <<filter_vars, cli_vars>>

NextFingerprint == SavePapers \/ Reconfigure \/ IsValid

SpecFingerprint == InitFingerprint /\ [][NextFingerprint]_vars

\* ------------------------------------------------------------------ repeated runs
\* the longest candidate list of a repeated run
MaxRunLen == 2

\* the score and match_reason a Paper may carry into filter_and_rank: those of
\* Paper.__init__, or those an earlier run stored (Paper(from_dict=...) restores
\* them from a cache file)
PriorValues ==
    { [score |-> 0, match_reason |-> <<>>],
      [score |-> 4200, match_reason |-> <<Reason("Author", name_other, <<>>, 0)>>] }

RunPool ==
    { [paper EXCEPT !.score = v.score, !.match_reason = v.match_reason] :
        paper \in {q \in ScoringPool : q.id \in {1, 2, 4}}, v \in PriorValues }

\* a candidate that is not in RunPool
OtherCandidate == CHOOSE q \in ScoringPool : q.id = 3

RunLists(pool) == UNION {[1..n -> pool] : n \in 0..MaxRunLen}

RunConfigs ==
    { c \in ScoringConfigs :
        /\ c.author_weight = 60 /\ c.max_papers = 2 /\ c.min_similarity_score = 30
        /\ c.use_semantic_similarity }

RunTexts == {search_text(q) : q \in ScoringPool}

\* what the fitted vectorizer and cosine_similarity make of a candidate text:
\* TfidfVectorizer is fitted on the reference texts alone and transforms every
\* candidate text on its own, so with a fixed reference corpus the maximum
\* similarity of a candidate is a function of its text
TextSimilarities ==
    { [t \in RunTexts |-> 0],
      [t \in RunTexts |-> IF t = <<"x", " ", "y">> THEN 30 ELSE 100],
      [t \in RunTexts |-> IF t = <<"x", " ", "y">> THEN 100 ELSE 30] }

\* PaperFilter.filter_and_rank with the similarity of every candidate text given
\* by similarity_of
filter_and_rank_with(ps, refs, cfg, similarity_of) ==
    { r \in filter_and_rank(ps, refs, cfg) :
        (cfg.use_semantic_similarity /\ refs # <<>>) =>
            \A p \in Range(r.surviving) :
                r.scored[p].sim_score = similarity_of[search_text(ps[p])] }

\* a PaperFilter about to rank a list of candidates that carry earlier values;
\* method_locals holds the library's similarity function and what the first
\* call left
InitRuns ==
    /\ config \in RunConfigs
    /\ papers \in RunLists(RunPool)
    /\ reference_papers \in {<<>>, <<ReferencePaper>>}
    /\ excluded_count = no_exclusions
    /\ surviving = <<>>
    /\ scored = <<>>
    /\ filtered_papers = <<>>
    /\ pc = "start"
    /\ user_config = <<>>
    /\ args = <<>>
    /\ cache = <<>>
    /\ steps = <<>>
    /\ stdout = <<>>
    /\ \E f \in TextSimilarities : method_locals = [similarity_of |-> f, first |-> <<>>]

\* paper_filter.filter_and_rank(papers, reference_papers), the first or the
\* second call
Run ==
    /\ pc \in {"start", "rearranged"}
    /\ \E r \in filter_and_rank_with(papers, reference_papers, config,
                                     method_locals.similarity_of) :
          /\ papers' = r.papers
          /\ excluded_count' = r.excluded_count
          /\ surviving' = r.surviving
          /\ scored' = r.scored
          /\ filtered_papers' = r.result
          /\ method_locals' =
                IF pc = "start"
                THEN [method_locals EXCEPT !.first = [papers |-> r.papers, scored |-> r.scored]]
                ELSE method_locals
    /\ pc' = IF pc = "start" THEN "ran" ELSE "ran_again"
    /\ UNCHANGED <<config, reference_papers, cli_vars>>

\* the caller builds another list from the Paper objects of the first call, as
\* that call left them, and a new candidate
Rearrange ==
    /\ pc = "ran"
    /\ papers' \in RunLists(Range(papers) \cup {OtherCandidate})
    /\ pc' = "rearranged"
    /\ UNCHANGED <<config, reference_papers, excluded_count, surviving, scored,
                   filtered_papers, cli_vars, method_locals>>

NextRuns == Run \/ Rearrange

SpecRuns == InitRuns /\ [][NextRuns]_vars

\* ------------------------------------------------------------------ cache validity
\* the clock stops here (hours)
MaxClock == 48

\* the clock advances in steps of half a max_age_hours
TickHours == 12

\* NewsletterCache.save_papers at time now: the metadata get their timestamp
save_papers_at(c, ps, cfg, now) ==
    LET saved == save_papers(c, ps, cfg)
    IN  [saved EXCEPT !.metadata = <<saved.metadata[1] @@ ("timestamp" :> now)>>]

\* NewsletterCache.is_valid(config, 24) at time now: the metadata must hold
\* config_hash and timestamp, the age is now - timestamp
is_valid_at(c, cfg, now) ==
    /\ c.metadata # <<>>
    /\ {"config_hash", "timestamp"} \subseteq DOMAIN c.metadata[1]
    /\ is_valid(c, cfg, now - c.metadata[1].timestamp)

\* NewsletterCache.clear: the four files are unlinked
clear(c) == empty_cache

\* three configurations: the first two differ only in the order of their
\* authors, the third follows another author
CacheConfigs ==
    { c \in FingerprintConfigs :
        /\ c.categories = <<cat_hep, cat_csl>> /\ c.keywords = <<>>
        /\ c.exclude_keywords = <<>> /\ c.days_back = 1
        /\ c.max_authors = 0 /\ c.min_authors = 0 }

\* the lists of papers written to the cache
CachePaperLists == {<<>>, <<ReferencePaper>>}

\* the cache directories NewsletterCache may find: empty, or with a papers file
\* and no metadata, empty metadata, metadata without timestamp, or metadata
\* without config_hash
FoundCaches ==
    { empty_cache,
      [empty_cache EXCEPT !.papers = <<<<>>>>],
      [empty_cache EXCEPT !.papers = <<<<>>>>, !.metadata = <<<<>>>>],
      [empty_cache EXCEPT !.papers = <<<<>>>>,
                          !.metadata = <<[timestamp |-> 0]>>] }
    \cup { [empty_cache EXCEPT !.papers = <<<<>>>>,
                               !.metadata = <<[config_hash |-> get_config_hash(c)]>>] :
             c \in CacheConfigs }

\* a NewsletterCache on a directory; method_locals holds the clock, what is
\* known of the directory's history and the answer of the last is_valid call
InitCache ==
    /\ cache \in FoundCaches
    /\ config = "None"
    /\ papers = <<>>
    /\ reference_papers = <<>>
    /\ excluded_count = no_exclusions
    /\ surviving = <<>>
    /\ scored = <<>>
    /\ filtered_papers = <<>>
    /\ user_config = <<>>
    /\ args = <<>>
    /\ steps = <<>>
    /\ stdout = <<>>
    /\ method_locals = [now |-> 0, history |-> [last |-> "found"], answer |-> <<>>]
    /\ pc = "cache"

\* cache.save_papers(papers, config)
CacheSavePapers ==
    /\ \E ps \in CachePaperLists : \E cfg \in CacheConfigs :
          /\ cache' = save_papers_at(cache, ps, cfg, method_locals.now)
          /\ method_locals' =
                [method_locals EXCEPT
                    !.history = [last |-> "save_papers", config |-> cfg,
                                 at |-> method_locals.now],
                    !.answer = <<>>]
    /\ UNCHANGED <<filter_vars, pc, user_config, args, steps, stdout>>

\* cache.save_reference_papers(papers)
CacheSaveReference ==
    /\ \E ps \in CachePaperLists : cache' = save_reference_papers(cache, ps)
    /\ method_locals' = [method_locals EXCEPT !.answer = <<>>]
    /\ UNCHANGED <<filter_vars, pc, user_config, args, steps, stdout>>

\* cache.save_filtered_papers(papers)
CacheSaveFiltered ==
    /\ \E ps \in CachePaperLists : cache' = save_filtered_papers(cache, ps)
    /\ method_locals' = [method_locals EXCEPT !.answer = <<>>]
    /\ UNCHANGED <<filter_vars, pc, user_config, args, steps, stdout>>

\* cache.clear()
CacheClear ==
    /\ cache' = clear(cache)
    /\ method_locals' = [method_locals EXCEPT !.history = [last |-> "clear"],
                                              !.answer = <<>>]
    /\ UNCHANGED <<filter_vars, pc, user_config, args, steps, stdout>>

\* time passes
CacheTick ==
    /\ method_locals.now < MaxClock
    /\ method_locals' = [method_locals EXCEPT !.now = @ + TickHours, !.answer = <<>>]
    /\ UNCHANGED <<filter_vars, pc, cli_vars>>

\* cache.is_valid(config, max_age_hours=24)
CacheIsValid ==
    /\ \E cfg \in CacheConfigs :
          method_locals' =
             [method_locals EXCEPT
                 !.answer = <<[config |-> cfg,
                               valid |-> is_valid_at(cache, cfg, method_locals.now)]>>]
    /\ UNCHANGED <<filter_vars, pc, cli_vars>>

NextCache ==
    \/ CacheSavePapers \/ CacheSaveReference \/ CacheSaveFiltered
    \/ CacheClear \/ CacheTick \/ CacheIsValid

SpecCache == InitCache /\ [][NextCache]_vars

\* ------------------------------------------------------------------ fetch_all_papers
\* paper.published, the sort key of fetch_all_papers: arXiv numbers its papers
\* in the order of their submission
published(paper) == paper.id

\* the three fetches put together and sorted, nothing dropped
fetch_all_papers_keeping_all(author_papers, category_papers, keyword_papers) ==
    LET fetched == author_papers \o category_papers \o keyword_papers
        key == [i \in DOMAIN fetched |-> [score |-> published(fetched[i])]]
    IN  Map(LAMBDA p : fetched[p], sort_by_score(Positions(Len(fetched)), key))

\* ArxivFetcher.fetch_all_papers on the results of its three fetches: a paper
\* is appended when its id was not seen before, then
\* all_papers.sort(key=published, reverse=True)
fetch_all_papers(author_papers, category_papers, keyword_papers) ==
    LET fetched == author_papers \o category_papers \o keyword_papers
        unseen(i) == \A j \in 1..(i - 1) : fetched[j].id # fetched[i].id
        key == [i \in DOMAIN fetched |-> [score |-> published(fetched[i])]]
    IN  Map(LAMBDA p : fetched[p],
            sort_by_score(SelectSeq(Positions(Len(fetched)), unseen), key))

\* ------------------------------------------------------------------ sessions
\* configuration files of a session: two that follow different authors
OtherYaml == [authors |-> <<name_other>>, keywords |-> <<kw_dm, kw_ai>>]

SessionYamls == {BaseYaml, OtherYaml}

\* command lines of a session: --days, --max-papers (<<>> when not given),
\* --no-similarity, --no-cache, --pdf-only; never --clear-cache or --cache-info
PlainArgs ==
    [days |-> <<>>, max_papers |-> <<>>, no_similarity |-> FALSE,
     no_cache |-> FALSE, pdf_only |-> FALSE]

SessionArgs ==
    { PlainArgs,
      [PlainArgs EXCEPT !.no_similarity = TRUE],
      [PlainArgs EXCEPT !.no_cache = TRUE],
      [PlainArgs EXCEPT !.pdf_only = TRUE],
      [PlainArgs EXCEPT !.days = <<0>>],
      [PlainArgs EXCEPT !.max_papers = <<0>>] }

\* what fetch_papers_by_authors, fetch_papers_by_categories and
\* fetch_papers_by_keywords may return: nothing, or lists that repeat a paper
\* within one fetch and across fetches, or a single paper of a category
SessionFetches ==
    LET P(id) == CHOOSE q \in CliPool : q.id = id
    IN  { <<<<>>, <<>>, <<>>>>,
          <<<<>>, <<P(3)>>, <<>>>>,
          <<<<P(1)>>, <<P(3), P(1)>>, <<>>>>,
          <<<<>>, <<P(3), P(3)>>, <<P(2), P(3)>>>> }

\* what fetch_reference_papers may return for the followed authors
ReferenceFetches(authors) ==
    IF authors = <<>> THEN {<<>>}
    ELSE {<<>>, <<Paper(21, <<"d","m">>, <<authors[1]>>, <<"x">>, <<cat_hep>>)>>}

\* the ages a cache may have when a run looks at it (hours)
SessionAges == {0, max_age_hours + 1}

\* the similarity the fitted vectorizer gives each candidate text
SessionSimilarity == [t \in RunTexts |-> IF t = <<"x", " ", "y">> THEN 30 ELSE 100]

\* what main keeps in locals during a run (cache_valid, the three fetches, the
\* list handed to the generator), and what is known of the earlier runs: the
\* configuration under which the cached reference papers were fetched and the
\* ranked output of the last run that reached the filter step
SessionLocals ==
    [cache_valid |-> FALSE, fetched |-> <<>>, generated |-> <<>>,
     reference_config |-> <<>>, ranked |-> <<>>]

\* the first run of a session finds an empty cache directory
InitSession ==
    /\ user_config \in SessionYamls
    /\ args \in SessionArgs
    /\ cache = empty_cache
    /\ config = "None"
    /\ papers = <<>>
    /\ reference_papers = <<>>
    /\ excluded_count = no_exclusions
    /\ surviving = <<>>
    /\ scored = <<>>
    /\ filtered_papers = <<>>
    /\ steps = <<>>
    /\ stdout = <<>>
    /\ method_locals = SessionLocals
    /\ pc = "main"

\* main: config = Config(config_path=args.config), the overrides, and the
\* branch to the --pdf-only mode
SessionMain ==
    /\ pc = "main"
    /\ LET cfg == load_config(user_config)
       IN  IF validate_config(cfg)
           THEN /\ config' = apply_overrides(cfg, args)
                /\ pc' = IF args.pdf_only THEN "pdf_only" ELSE "fetch"
                /\ UNCHANGED stdout
           ELSE /\ stdout' = Append(stdout, "Error")
                /\ pc' = "return_1"
                /\ UNCHANGED config
    /\ UNCHANGED <<papers, reference_papers, excluded_count, surviving, scored,
                   filtered_papers, user_config, args, cache, steps, method_locals>>

\* main, --pdf-only: the filtered papers of the cache are handed to the
\* generator; without them main returns 1
SessionPdfOnly ==
    /\ pc = "pdf_only"
    /\ IF cache.filtered = <<>> \/ cache.filtered[1] = <<>>
       THEN /\ steps' = Append(steps, "load_filtered_papers")
            /\ stdout' = Append(stdout, "Error: No filtered papers in cache. Run without --pdf-only first.")
            /\ pc' = "return_1"
            /\ UNCHANGED method_locals
       ELSE /\ steps' = steps \o <<"load_filtered_papers", "generate">>
            /\ method_locals' = [method_locals EXCEPT !.generated = cache.filtered[1]]
            /\ pc' = "return_0"
            /\ UNCHANGED stdout
    /\ UNCHANGED <<filter_vars, user_config, args, cache>>

\* main, step 1: the papers are loaded from a valid cache or fetched; a fresh
\* fetch that finds nothing ends the run, any other is saved to the cache
SessionFetch ==
    /\ pc = "fetch"
    /\ \E age_hours \in SessionAges :
          LET cache_valid == ~args.no_cache /\ is_valid(cache, config, age_hours)
          IN  IF cache_valid
              THEN /\ papers' = cache.papers[1]
                   /\ method_locals' = [method_locals EXCEPT !.cache_valid = TRUE]
                   /\ steps' = Append(steps, "load_papers")
                   /\ pc' = "references"
                   /\ UNCHANGED <<cache, stdout>>
              ELSE \E f \in SessionFetches :
                      LET all_papers == fetch_all_papers(f[1], f[2], f[3])
                      IN  /\ papers' = all_papers
                          /\ method_locals' = [method_locals EXCEPT !.cache_valid = FALSE,
                                                                    !.fetched = f]
                          /\ IF all_papers = <<>>
                             THEN /\ steps' = Append(steps, "fetch_all_papers")
                                  /\ stdout' = Append(stdout, "No papers found matching your criteria.")
                                  /\ pc' = "return_1"
                                  /\ UNCHANGED cache
                             ELSE /\ steps' = steps \o <<"fetch_all_papers", "save_papers">>
                                  /\ cache' = save_papers(cache, all_papers, config)
                                  /\ pc' = "references"
                                  /\ UNCHANGED stdout
    /\ UNCHANGED <<config, reference_papers, excluded_count, surviving, scored,
                   filtered_papers, user_config, args>>

\* main, step 2: the reference papers are loaded from the cache or fetched and
\* saved, when similarity is in use and authors are followed
SessionReferences ==
    /\ pc = "references"
    /\ IF config.use_semantic_similarity /\ config.authors # <<>>
       THEN IF method_locals.cache_valid /\ cache.reference # <<>>
                                         /\ cache.reference[1] # <<>>
            THEN /\ reference_papers' = cache.reference[1]
                 /\ steps' = Append(steps, "load_reference_papers")
                 /\ UNCHANGED <<cache, method_locals>>
            ELSE \E fetched \in ReferenceFetches(config.authors) :
                    /\ reference_papers' = fetched
                    /\ steps' = steps \o <<"fetch_reference_papers", "save_reference_papers">>
                    /\ cache' = save_reference_papers(cache, fetched)
                    /\ method_locals' = [method_locals EXCEPT !.reference_config = <<config>>]
       ELSE /\ reference_papers' = <<>>
            /\ UNCHANGED <<cache, steps, method_locals>>
    /\ pc' = "filter"
    /\ UNCHANGED <<config, papers, excluded_count, surviving, scored, filtered_papers,
                   user_config, args, stdout>>

\* main, step 3: filter_and_rank; an empty result ends the run, any other is
\* saved to the cache
SessionFilter ==
    /\ pc = "filter"
    /\ \E r \in filter_and_rank_with(papers, reference_papers, config, SessionSimilarity) :
          LET ranked == Map(LAMBDA p : r.papers[p], r.result)
          IN  /\ papers' = r.papers
              /\ excluded_count' = r.excluded_count
              /\ surviving' = r.surviving
              /\ scored' = r.scored
              /\ filtered_papers' = r.result
              /\ method_locals' = [method_locals EXCEPT !.ranked = <<ranked>>]
              /\ IF r.result = <<>>
                 THEN /\ steps' = Append(steps, "filter_and_rank")
                      /\ stdout' = Append(stdout, "No papers passed the relevance threshold.")
                      /\ pc' = "return_1"
                      /\ UNCHANGED cache
                 ELSE /\ steps' = steps \o <<"filter_and_rank", "save_filtered_papers">>
                      /\ cache' = save_filtered_papers(cache, ranked)
                      /\ pc' = "generate"
                      /\ UNCHANGED stdout
    /\ UNCHANGED <<config, reference_papers, user_config, args>>

\* main, step 4: the newsletter is generated and main returns 0
SessionGenerate ==
    /\ pc = "generate"
    /\ steps' = Append(steps, "generate")
    /\ method_locals' =
          [method_locals EXCEPT !.generated = Map(LAMBDA p : papers[p], filtered_papers)]
    /\ pc' = "return_0"
    /\ UNCHANGED <<filter_vars, user_config, args, cache, stdout>>

\* the program is started again, with a command line and a configuration
\* file, on the cache directory the earlier runs left
SessionNextRun ==
    /\ pc \in {"return_0", "return_1"}
    /\ user_config' \in SessionYamls
    /\ args' \in SessionArgs
    /\ config' = "None"
    /\ papers' = <<>>
    /\ reference_papers' = <<>>
    /\ excluded_count' = no_exclusions
    /\ surviving' = <<>>
    /\ scored' = <<>>
    /\ filtered_papers' = <<>>
    /\ steps' = <<>>
    /\ stdout' = <<>>
    /\ method_locals' = [method_locals EXCEPT !.cache_valid = FALSE, !.fetched = <<>>,
                                              !.generated = <<>>]
    /\ pc' = "main"
    /\ UNCHANGED cache

NextSession ==
    \/ SessionMain \/ SessionPdfOnly \/ SessionFetch \/ SessionReferences
    \/ SessionFilter \/ SessionGenerate \/ SessionNextRun

SpecSession == InitSession /\ [][NextSession]_vars

\* ------------------------------------------------------------------ Config instances
\* The dict objects of the interpreter, by address: a dict is a function from
\* its keys to their values, and the value of a nested key ("output",
\* "advanced", "exclusions") is the address of another dict. Lists and scalars
\* are values; only item assignment is modelled, so the sharing of the list
\* objects plays no part. The keys are those of Config.DEFAULT_CONFIG that the
\* validation and the command line touch, and one key of "output".
MaxInstances == 2

DefaultsAt == 1

\* the heap once the class body of Config has run: DEFAULT_CONFIG and its
\* three nested dicts
ClassHeap ==
    << [days_back |-> 7, max_papers |-> 20, output |-> 2, advanced |-> 3, exclusions |-> 4],
       [include_abstracts |-> TRUE],
       [use_semantic_similarity |-> TRUE, author_weight |-> 60],
       [max_authors |-> 0, min_authors |-> 0] >>

NestedKeys == {"output", "advanced", "exclusions"}

\* the settings reachable from the dict at an address, nested dicts by value
settings(heap, at) ==
    [k \in DOMAIN heap[at] |-> IF k \in NestedKeys THEN heap[heap[at][k]] ELSE heap[at][k]]

\* what yaml.safe_load may read: no file (<<>>), or <<user_config>> for an
\* empty file, a file of top-level keys, and files with nested sections
InstanceYamls ==
    { <<>>,
      << <<>> >>,
      << [days_back |-> 3] >>,
      << [advanced |-> [author_weight |-> 50]] >>,
      << [max_papers |-> 5, exclusions |-> [max_authors |-> 10], output |-> [include_abstracts |-> FALSE]] >> }

\* dict.copy(): a new dict with the same keys and the same values, the
\* addresses of the nested dicts included
shallow_copy(heap, at) == heap[at]

\* {**DEFAULT_CONFIG[key], **user_config[key]}: a new dict
merged(heap, key, section) ==
    LET defaults == heap[heap[DefaultsAt][key]]
    IN  [k \in DOMAIN defaults |-> IF k \in DOMAIN section THEN section[k] ELSE defaults[k]]

\* Config._load_config on a heap: the heap with the dicts it allocates, the
\* new top-level dict last. RECURSIVE over the nested keys the file sets.
RECURSIVE deep_merge(_, _, _, _)
deep_merge(heap, top, user, keys) ==
    IF keys = {} THEN Append(heap, top)
    ELSE LET key == CHOOSE k \in keys : TRUE
             with_section == Append(heap, merged(heap, key, user[key]))
         IN  deep_merge(with_section, [top EXCEPT ![key] = Len(with_section)],
                        user, keys \ {key})

load_config_at(heap, yaml) ==
    IF yaml = <<>> THEN Append(heap, shallow_copy(heap, DefaultsAt))
    ELSE LET user == yaml[1]
             copy == shallow_copy(heap, DefaultsAt)
             updated == [k \in DOMAIN copy |->
                            IF k \in DOMAIN user \ NestedKeys THEN user[k] ELSE copy[k]]
         IN  deep_merge(heap, updated, user, DOMAIN user \cap NestedKeys)

\* Config._validate_config on the dict at an address
validate_config_at(heap, at) ==
    /\ heap[at].days_back >= 1
    /\ heap[at].max_papers >= 1
    /\ heap[heap[at].advanced].author_weight \in 0..100

\* the settings a Config has by value: the pristine defaults overlaid with the
\* file's keys, section by section
settings_by_value(yaml) ==
    LET pristine == settings(ClassHeap, DefaultsAt)
    IN  IF yaml = <<>> THEN pristine
        ELSE [k \in DOMAIN pristine |->
                IF k \notin DOMAIN yaml[1] THEN pristine[k]
                ELSE IF k \notin NestedKeys THEN yaml[1][k]
                ELSE [s \in DOMAIN pristine[k] |->
                        IF s \in DOMAIN yaml[1][k] THEN yaml[1][k][s] ELSE pristine[k][s]]]

\* the assignments main makes on its Config: config.config[key] = value and
\* config.config["advanced"]["use_semantic_similarity"] = False
TopEdits == {<<"days_back", 1>>, <<"max_papers", 5>>}

NestedEdits == {<<"advanced", "use_semantic_similarity", FALSE>>}

\* the interpreter after the import of the module: no Config constructed yet.
\* instances are the addresses of the config attribute of the Config objects
\* constructed so far; by_value are their settings as they would be if every
\* Config owned all of its dicts.
InitInstances ==
    /\ method_locals = [heap |-> ClassHeap, instances |-> <<>>, by_value |-> <<>>]
    /\ config = "None"
    /\ papers = <<>>
    /\ reference_papers = <<>>
    /\ excluded_count = no_exclusions
    /\ surviving = <<>>
    /\ scored = <<>>
    /\ filtered_papers = <<>>
    /\ user_config = <<>>
    /\ args = <<>>
    /\ cache = <<>>
    /\ steps = <<>>
    /\ stdout = <<>>
    /\ pc = "imported"

\* Config(config_path): _load_config, then _validate_config
NewConfig ==
    /\ Len(method_locals.instances) < MaxInstances
    /\ \E yaml \in InstanceYamls :
         LET heap == load_config_at(method_locals.heap, yaml)
         IN  /\ validate_config_at(heap, Len(heap))
             /\ method_locals' =
                    [heap |-> heap,
                     instances |-> Append(method_locals.instances, Len(heap)),
                     by_value |-> Append(method_locals.by_value, settings_by_value(yaml))]
    /\ pc' = "constructed"
    /\ UNCHANGED <<filter_vars, cli_vars>>

\* config.config[key] = value on one of the instances
SetTopLevel ==
    /\ \E i \in DOMAIN method_locals.instances : \E edit \in TopEdits :
         method_locals' =
            [method_locals EXCEPT
                !.heap[method_locals.instances[i]][edit[1]] = edit[2],
                !.by_value[i][edit[1]] = edit[2]]
    /\ pc' = "assigned"
    /\ UNCHANGED <<filter_vars, cli_vars>>

\* config.config[key][sub] = value on one of the instances
SetNested ==
    /\ \E i \in DOMAIN method_locals.instances : \E edit \in NestedEdits :
         LET at == method_locals.heap[method_locals.instances[i]][edit[1]]
         IN  method_locals' =
                [method_locals EXCEPT
                    !.heap[at][edit[2]] = edit[3],
                    !.by_value[i][edit[1]][edit[2]] = edit[3]]
    /\ pc' = "assigned_nested"
    /\ UNCHANGED <<filter_vars, cli_vars>>

NextInstances == NewConfig \/ SetTopLevel \/ SetNested

SpecInstances == InitInstances /\ [][NextInstances]_vars

\* ------------------------------------------------------------------ properties
Returned == pc = "returned"

Excluded == pc = "excluded"

\* the score filter_and_rank stored in the candidate at position p
ScoreOf(p) == papers[p].score

\* the candidate at position p has an author match (the spec's match rule)
HasAuthorMatch(p) ==
    LET targets == {normalize_author_name(config.authors[t]) : t \in DOMAIN config.authors}
    IN  \E a \in DOMAIN papers[p].authors :
            LET na == normalize_author_name(papers[p].authors[a])
            IN  \E nt \in targets : contains(na, nt) \/ contains(nt, na)

\* the candidate at position p passes the four exclusion rules, each on its own
PassesAllRules(p) ==
    LET paper == papers[p]
        text == lower(paper.title \o <<" ">> \o paper.abstract)
    IN  /\ config.max_authors <= 0 \/ Len(paper.authors) <= config.max_authors
        /\ config.min_authors <= 0 \/ Len(paper.authors) >= config.min_authors
        /\ \A k \in DOMAIN config.exclude_keywords :
              ~contains(text, lower(config.exclude_keywords[k]))
        /\ \A c \in DOMAIN paper.categories : \A x \in DOMAIN config.exclude_categories :
              ~startswith(paper.categories[c], config.exclude_categories[x])

ExclusionSurvivors == {p \in DOMAIN papers : PassesAllRules(p)}

\* the survivors of the selection step
Selected == {p \in Range(surviving) : scored[p].selected}

Emitted == Range(filtered_papers)

\* C1: whatever the candidates, the reference corpus, the validated configuration
\* and the selection mode, the returned list has at most max_papers elements.
C1_OutputAtMostMaxPapers ==
    Returned => Len(filtered_papers) <= config.max_papers

\* a run where the cap cut the list: more candidates were selected than max_papers
C1_Witness ==
    /\ Returned
    /\ Cardinality(Selected) > config.max_papers
    /\ Len(filtered_papers) = config.max_papers

\* the threshold-mode condition of C2 on the candidate at position p
Qualifies(p) ==
    ScoreOf(p) >= config.min_similarity_score * 100 \/ HasAuthorMatch(p)

\* C2: in threshold mode the candidates that survive selection are exactly the
\* exclusion survivors with score >= min_similarity_score or an author match:
\* every emitted candidate qualifies, and a qualifying survivor that is not
\* emitted was cut by the max_papers cap, never by the selection step.
C2_ThresholdSelection ==
    (Returned /\ config.selection_mode = "threshold") =>
        LET qualifying == {p \in ExclusionSurvivors : Qualifies(p)}
        IN  /\ Emitted \subseteq qualifying
            /\ \A p \in ExclusionSurvivors : scored[p].selected <=> p \in qualifying
            /\ \A p \in qualifying :
                  p \notin Emitted => Len(filtered_papers) = config.max_papers

\* threshold mode kept an author match whose score is below the threshold
\* (author_weight = 0) and dropped a candidate with neither
C2_Witness ==
    /\ Returned /\ config.selection_mode = "threshold"
    /\ config.author_weight = 0 /\ config.min_similarity_score > 0
    /\ \E p \in Emitted :
          HasAuthorMatch(p) /\ ScoreOf(p) < config.min_similarity_score * 100
    /\ \E p \in ExclusionSurvivors : ~Qualifies(p) /\ p \notin Emitted

\* C3: in both modes the output is the first max_papers elements of the stable
\* descending-by-score ordering of the selection survivors.
C3_StableDescendingPrefix ==
    Returned =>
        /\ Emitted \subseteq Selected
        /\ Len(filtered_papers) = Min(Cardinality(Selected), config.max_papers)
        /\ \A i, j \in DOMAIN filtered_papers :
              i < j =>
                 /\ ScoreOf(filtered_papers[i]) >= ScoreOf(filtered_papers[j])
                 /\ ScoreOf(filtered_papers[i]) = ScoreOf(filtered_papers[j])
                       => filtered_papers[i] < filtered_papers[j]
        /\ \A q \in Selected \ Emitted : \A p \in Emitted :
              /\ ScoreOf(q) <= ScoreOf(p)
              /\ ScoreOf(q) = ScoreOf(p) => p < q

\* two emitted candidates tie, are not the first two of the input, and a
\* selected candidate was left out
C3_Witness ==
    /\ Returned
    /\ Len(filtered_papers) = 2
    /\ ScoreOf(filtered_papers[1]) = ScoreOf(filtered_papers[2])
    /\ filtered_papers[2] = 3
    /\ Selected \ Emitted # {}

RuleOrders ==
    {o \in [1..4 -> Range(exclusion_order)] : Range(o) = Range(exclusion_order)}

\* C5: a candidate survives _apply_exclusions iff it passes all four rules, each
\* evaluated on its own; the survivors and their order are the same for every
\* order in which the rules are tested.
C5_SurvivorsPassAllRules ==
    Excluded =>
        /\ \A i \in DOMAIN surviving : surviving[i] \in DOMAIN papers
        /\ Range(surviving) = ExclusionSurvivors
        /\ \A i, j \in DOMAIN surviving : i < j => surviving[i] < surviving[j]
        /\ \A o \in RuleOrders : exclusions_in_order(papers, config, o).filtered = surviving

\* one pass kept a candidate, dropped one that breaks several rules, and kept
\* one whose category contains a blocked prefix without starting with it
C5_Witness ==
    /\ Excluded
    /\ \E p \in Range(surviving) : \E c \in DOMAIN papers[p].categories :
          \E x \in DOMAIN config.exclude_categories :
             /\ contains(papers[p].categories[c], config.exclude_categories[x])
             /\ ~startswith(papers[p].categories[c], config.exclude_categories[x])
    /\ \E p \in DOMAIN papers :
          /\ config.max_authors > 0 /\ Len(papers[p].authors) > config.max_authors
          /\ \E k \in DOMAIN config.exclude_keywords :
                contains(lower(search_text(papers[p])), lower(config.exclude_keywords[k]))

\* the candidate at position p breaks the rule named r (the claim's wording)
Breaks(r, p) ==
    LET paper == papers[p]
        text == lower(paper.title \o <<" ">> \o paper.abstract)
    IN  CASE r = "max_authors" ->
                config.max_authors > 0 /\ Len(paper.authors) > config.max_authors
          [] r = "min_authors" ->
                config.min_authors > 0 /\ Len(paper.authors) < config.min_authors
          [] r = "keywords" ->
                \E k \in DOMAIN config.exclude_keywords :
                    contains(text, lower(config.exclude_keywords[k]))
          [] r = "categories" ->
                \E c \in DOMAIN paper.categories : \E x \in DOMAIN config.exclude_categories :
                    startswith(paper.categories[c], config.exclude_categories[x])

ClaimedOrder == <<"max_authors", "min_authors", "keywords", "categories">>

\* the candidates the claim counts in the bucket ClaimedOrder[n]: those that
\* break that rule and none of the rules before it
Bucket(n) ==
    {p \in DOMAIN papers :
        Breaks(ClaimedOrder[n], p) /\ \A m \in 1..(n - 1) : ~Breaks(ClaimedOrder[m], p)}

\* C6: every rejected candidate is counted in exactly one bucket, that of the
\* first rule it breaks in the order max_authors, min_authors, keywords,
\* categories; the tallies and the survivors add up to the input; a candidate
\* with more than max_authors > 0 authors is dropped and counted under max_authors.
C6_OneBucketPerRejected ==
    Excluded =>
        /\ \A n \in 1..4 : excluded_count[ClaimedOrder[n]] = Cardinality(Bucket(n))
        /\ excluded_count["max_authors"] + excluded_count["min_authors"]
              + excluded_count["keywords"] + excluded_count["categories"]
              + Len(surviving) = Len(papers)
        /\ \A p \in DOMAIN papers :
              (config.max_authors > 0 /\ Len(papers[p].authors) > config.max_authors)
                 => p \notin Range(surviving) /\ p \in Bucket(1)

\* a candidate with too many authors that also has a blocked keyword and a
\* blocked category was counted under max_authors only, next to a candidate
\* counted under keywords
C6_Witness ==
    /\ Excluded
    /\ \E p \in DOMAIN papers :
          Breaks("max_authors", p) /\ Breaks("keywords", p) /\ Breaks("categories", p)
    /\ excluded_count["max_authors"] = 1
    /\ excluded_count["keywords"] = 1
    /\ excluded_count["categories"] = 0
    /\ surviving # <<>>

Scored == {p \in DOMAIN scored : scored[p].scored}

\* the number of distinct target keywords that occur, case-insensitively, in
\* title + " " + abstract of the candidate at position p
DistinctKeywordsMatched(p) ==
    Cardinality({kw \in Range(config.keywords) :
                    contains(lower(papers[p].title \o <<" ">> \o papers[p].abstract), lower(kw))})

\* C7: the keyword contribution of every scored candidate is min(0.2 * k, 0.5),
\* k being the number of distinct target keywords found in its text, also when
\* the target keyword list repeats a keyword.
C7_KeywordContribution ==
    Returned =>
        \A p \in Scored :
            scored[p].keyword_part
                = Min(keyword_step * DistinctKeywordsMatched(p), keyword_cap)

\* C8: a scored candidate with an author match has a final score >= author_weight.
C8_AuthorWeightIsFloor ==
    Returned =>
        \A p \in Scored : HasAuthorMatch(p) => ScoreOf(p) >= config.author_weight * 100

\* an author match with nothing else scores exactly author_weight > 0, and
\* another one with keywords and similarity scores more
C8_Witness ==
    /\ Returned /\ config.author_weight > 0
    /\ \E p \in Scored : HasAuthorMatch(p) /\ ScoreOf(p) = config.author_weight * 100
    /\ \E p \in Scored : HasAuthorMatch(p) /\ ScoreOf(p) > config.author_weight * 100
                            /\ scored[p].similarity_part > 0

\* C9: the final score of every scored candidate is the sum of its author,
\* keyword and similarity contributions, each of them >= 0, so no score is
\* negative.
C9_ScoreIsSumOfNonNegativeParts ==
    Returned =>
        \A p \in Scored :
            /\ ScoreOf(p) = scored[p].author_part + scored[p].keyword_part
                               + scored[p].similarity_part
            /\ scored[p].author_part >= 0
            /\ scored[p].keyword_part >= 0
            /\ scored[p].similarity_part >= 0
            /\ ScoreOf(p) >= 0

\* a candidate all three of whose contributions are positive, next to one that
\* scores nothing
C9_Witness ==
    /\ Returned
    /\ \E p \in Scored : /\ scored[p].author_part > 0
                         /\ scored[p].keyword_part > 0
                         /\ scored[p].similarity_part > 0
    /\ \E p \in Scored : ScoreOf(p) = 0

\* C10: the similarity contribution is similarity * (1 - author_weight); with
\* similarity in [0,1] it is at most 1 - author_weight, so the author and the
\* similarity contribution of one candidate never add up to more than 1.
C10_SimilarityComplementsAuthorWeight ==
    Returned =>
        \A p \in Scored :
            /\ scored[p].similarity_part = scored[p].sim_score * (100 - config.author_weight)
            /\ (0 <= scored[p].sim_score /\ scored[p].sim_score <= 100) =>
                  /\ scored[p].similarity_part <= (100 - config.author_weight) * 100
                  /\ scored[p].author_part + scored[p].similarity_part <= 10000

\* author_weight 0.6, an author match and similarity 1: the similarity
\* contribution is 0.4 and the two add up to exactly 1
C10_Witness ==
    /\ Returned /\ config.author_weight = 60
    /\ \E p \in Scored : /\ HasAuthorMatch(p)
                         /\ scored[p].sim_score = 100
                         /\ scored[p].similarity_part = 4000
                         /\ scored[p].author_part + scored[p].similarity_part = 10000

\* C11: with no reference papers, use_semantic_similarity on or off,
\* filter_and_rank returns, the similarity contribution of every scored
\* candidate is 0, its score is its author plus its keyword contribution and no
\* similarity is reported; a second call on the same inputs leaves every score
\* and the returned list as the first call left them.
C11_NoReferencesNoSimilarity ==
    /\ []((pc \in {"returned", "returned_again"} /\ reference_papers = <<>>) =>
            \A p \in Scored :
               /\ scored[p].similarity_part = 0
               /\ ScoreOf(p) = scored[p].author_part + scored[p].keyword_part
               /\ \A i \in DOMAIN papers[p].match_reason :
                     papers[p].match_reason[i].kind # "Similarity")
    /\ [][(pc = "returned" /\ reference_papers = <<>>) =>
            /\ pc' = "returned_again"
            /\ \A p \in DOMAIN papers : papers'[p].score = papers[p].score
            /\ filtered_papers' = filtered_papers]_vars

\* use_semantic_similarity is on, there are no reference papers, and the second
\* call returned two candidates with different positive scores
C11_Witness ==
    /\ pc = "returned_again"
    /\ reference_papers = <<>>
    /\ config.use_semantic_similarity
    /\ Len(filtered_papers) = 2
    /\ ScoreOf(filtered_papers[1]) > ScoreOf(filtered_papers[2])
    /\ ScoreOf(filtered_papers[2]) > 0

\* C12: when the configuration file gives an author_weight or a
\* min_similarity_score outside [0,1], or a selection_mode other than
\* "threshold" and "fill", main ends with the configuration error before any
\* fetch, filter, cache write or generation step; and the selection mode the
\* filter reads is always "threshold" or "fill".
C12_InvalidConfigStopsRun ==
    LET cfg == load_config(user_config)
        invalid == \/ cfg.author_weight < 0 \/ cfg.author_weight > 100
                   \/ cfg.min_similarity_score < 0 \/ cfg.min_similarity_score > 100
                   \/ cfg.selection_mode \notin {"threshold", "fill"}
    IN  /\ (invalid /\ pc # "main") =>
              pc = "return_1" /\ steps = <<>> /\ stdout = <<"Error">>
        /\ pc \in {"fetch", "references", "filter", "generate", "return_0"} =>
              selection_mode(config) \in {"threshold", "fill"}

\* the last line of guidance main printed
Guidance == stdout[Len(stdout)]

\* main returned 1 without an exception
EndedEmpty == pc = "return_1" /\ stdout # <<"Error">>

\* the three empty conditions of a run
NoCandidates == EndedEmpty /\ papers = <<>>

NoSurvivorsAfterExclusion == EndedEmpty /\ papers # <<>> /\ surviving = <<>>

NoSurvivorsAfterSelection ==
    EndedEmpty /\ papers # <<>> /\ surviving # <<>> /\ filtered_papers = <<>>

\* C13: no candidates, no survivors after exclusion and no survivors after
\* selection end the run without an exception and with an empty result, and
\* what the caller is told identifies the condition: the guidance for "no
\* candidates at all" is printed exactly when there were none, and the guidance
\* for "none passed the selection" exactly when the selection left none.
C13_EmptyResultsCarryReason ==
    EndedEmpty =>
        /\ filtered_papers = <<>>
        /\ NoCandidates \/ NoSurvivorsAfterExclusion \/ NoSurvivorsAfterSelection
        /\ Guidance = "No papers found matching your criteria." <=> NoCandidates
        /\ Guidance = "No papers passed the relevance threshold."
              <=> NoSurvivorsAfterSelection

\* the candidate without the authors whose matching fails: its author
\* contribution is then 0
without_failing_authors(paper) ==
    IF author_matches_raises(paper.authors, config.authors)
    THEN [paper EXCEPT !.authors = <<>>]
    ELSE paper

\* C14: when the author matching fails for one candidate (a None among its
\* authors), filter_and_rank still returns: the scores and the returned list
\* are those of a call in which that candidate has no author contribution and
\* every other candidate is as it was.
C14_FailSoftPerCandidate ==
    pc \in {"returned", "raised"} =>
        /\ pc = "returned"
        /\ \E r \in filter_and_rank(Map(without_failing_authors, papers),
                                    reference_papers, config) :
              /\ r.result = filtered_papers
              /\ \A p \in DOMAIN papers : r.papers[p].score = papers[p].score

\* C15: compute_similarity_scores returns one value per candidate, in candidate
\* order, on every path: zeros exactly when the reference corpus or the
\* candidate list is empty or the vectorization failed (the call then still
\* returns), and otherwise, for the candidate at position i, the largest of its
\* similarities to the single reference papers.
C15_OneSimilarityPerCandidate ==
    pc = "computed" =>
        LET result == method_locals.result
            cos == method_locals.similarities
        IN  /\ DOMAIN result = DOMAIN papers
            /\ (papers = <<>> \/ reference_papers = <<>>) <=> method_locals.path = "empty"
            /\ method_locals.path \in {"empty", "except"} =>
                  \A i \in DOMAIN papers : result[i] = 0
            /\ method_locals.path = "computed" =>
                  /\ DOMAIN cos = DOMAIN papers
                  /\ \A i \in DOMAIN papers :
                        /\ DOMAIN cos[i] = DOMAIN reference_papers
                        /\ \E j \in DOMAIN reference_papers : result[i] = cos[i][j]
                        /\ \A j \in DOMAIN reference_papers : result[i] >= cos[i][j]

\* two reference papers and two candidates: one candidate is most similar to
\* the first reference paper, the other to the second
C15_Witness ==
    /\ pc = "computed"
    /\ method_locals.path = "computed"
    /\ Len(reference_papers) = 2 /\ Len(papers) >= 2
    /\ method_locals.similarities[1] = <<100, 30>>
    /\ method_locals.similarities[2] = <<0, 30>>
    /\ method_locals.result[1] = 100
    /\ method_locals.result[2] = 30

\* C16: normalizing a normalized author name changes nothing, and a normalized
\* name is in normal form: no upper-case letter, no punctuation, no whitespace
\* other than single spaces between words.
C16_NormalizeIdempotent ==
    /\ pc = "normalized_again" => method_locals.again = method_locals.normalized
    /\ pc \in {"normalized", "normalized_again"} =>
          LET n == method_locals.normalized
          IN  /\ \A i \in DOMAIN n : n[i] = " " \/ (is_word_char(n[i]) /\ n[i] \notin UpperChars)
              /\ \A i \in DOMAIN n : n[i] = " " => (i > 1 /\ i < Len(n) /\ n[i + 1] # " ")

\* a name with an upper-case letter, punctuation and a run of whitespace whose
\* normal form differs from it and was normalized again
C16_Witness ==
    /\ pc = "normalized_again"
    /\ method_locals.name = <<"A", ".", "\t", "a">>
    /\ method_locals.normalized = <<"a", " ", "a">>
    /\ method_locals.again = <<"a", " ", "a">>

\* the candidate at position p and the followed authors hold the two spellings
\* "J. Smith" and "John Smith" of one name, one on each side
AbbreviatedVariant(p) ==
    \/ /\ name_abbreviated \in Range(papers[p].authors)
       /\ name_full \in Range(config.authors)
    \/ /\ name_full \in Range(papers[p].authors)
       /\ name_abbreviated \in Range(config.authors)

\* C17: a candidate author "J. Smith" matches the followed author "John Smith",
\* and "John Smith" matches the followed author "J. Smith": the candidate has
\* an author match and receives the author contribution.
C17_AbbreviatedFirstNameMatches ==
    Returned =>
        \A p \in Scored :
            AbbreviatedVariant(p) =>
                /\ scored[p].author_match
                /\ scored[p].author_part = config.author_weight * 100

\* the positions in the author list of the candidate at position p whose
\* normalized name contains, or is contained in, a normalized followed author
MatchingAuthors(p) ==
    LET targets == {normalize_author_name(config.authors[t]) : t \in DOMAIN config.authors}
    IN  {a \in DOMAIN papers[p].authors :
            LET na == normalize_author_name(papers[p].authors[a])
            IN  \E nt \in targets : contains(na, nt) \/ contains(nt, na)}

\* C20: a scored candidate has an author match iff one of its authors and one
\* of the followed authors are, after normalization, substrings one of the
\* other; match_reason then names the first such author of the candidate's
\* author list, as the candidate spells it, and names no author otherwise.
C20_AuthorMatchRule ==
    Returned =>
        \A p \in Scored :
            LET hits == MatchingAuthors(p)
                reasons == papers[p].match_reason
            IN  /\ scored[p].author_match <=> hits # {}
                /\ hits # {} =>
                      LET first == CHOOSE a \in hits : \A b \in hits : a <= b
                      IN  reasons[1] = Reason("Author", papers[p].authors[first], <<>>, 0)
                /\ hits = {} => \A i \in DOMAIN reasons : reasons[i].kind # "Author"

\* the candidate's first author does not match, its second and third do, in
\* spellings that differ from their normal form and from each other; the second
\* one is recorded
C20_Witness ==
    /\ Returned
    /\ config.authors = <<name_target>>
    /\ papers[1].authors = <<name_other, name_punct, name_upper>>
    /\ MatchingAuthors(1) = {2, 3}
    /\ papers[1].match_reason[1].author = name_punct
    /\ normalize_author_name(name_punct) # name_punct

\* days_back < 1 or min_similarity_score outside [0,1]
BadDaysOrThreshold(cfg) ==
    \/ cfg.days_back < 1
    \/ cfg.min_similarity_score < 0
    \/ cfg.min_similarity_score > 100

\* C18: the validation raises ValueError whenever days_back < 1 or
\* min_similarity_score is outside [0,1], when Config() loads the file and
\* when it is run again on a Config that was modified after loading; and the
\* default configuration (no file) passes it, with days_back >= 1,
\* max_papers >= 1, min_similarity_score in [0,1] and lists for authors,
\* categories and keywords.
C18_ValidationRaises ==
    /\ (pc # "start" /\ BadDaysOrThreshold(load_config(user_config)))
          => pc = "raised_on_load"
    /\ (pc \in {"validated", "raised_on_validate"} /\ BadDaysOrThreshold(config))
          => pc = "raised_on_validate"
    /\ (pc = "loaded" /\ user_config = <<>>) =>
          /\ config = DEFAULT_CONFIG
          /\ config.days_back >= 1
          /\ config.max_papers >= 1
          /\ 0 <= config.min_similarity_score /\ config.min_similarity_score <= 100
          /\ config.not_a_list \cap {"authors", "categories", "keywords"} = {}
    /\ user_config = <<>> => pc # "raised_on_load"

\* the default configuration was loaded, days_back was set to 0 and the
\* validation, run again, raised
C18_Witness ==
    /\ pc = "raised_on_validate"
    /\ user_config = <<>>
    /\ config = [DEFAULT_CONFIG EXCEPT !.days_back = 0]

\* the lists a and b hold the same entries the same number of times
IsPermutation(a, b) ==
    /\ Len(a) = Len(b)
    /\ \A x \in Range(a) \cup Range(b) :
          Cardinality({i \in DOMAIN a : a[i] = x}) = Cardinality({i \in DOMAIN b : b[i] = x})

\* the two configurations agree on the seven settings, up to the order of the lists
SameCacheSettings(c, d) ==
    /\ c.days_back = d.days_back
    /\ c.max_authors = d.max_authors
    /\ c.min_authors = d.min_authors
    /\ IsPermutation(c.authors, d.authors)
    /\ IsPermutation(c.categories, d.categories)
    /\ IsPermutation(c.keywords, d.keywords)
    /\ IsPermutation(c.exclude_keywords, d.exclude_keywords)

\* C19: the configuration the cache was written under and the configuration it
\* is checked against have the same fingerprint when they agree on days_back,
\* max_authors and min_authors and their authors, categories, keywords and
\* exclude_keywords lists are permutations of each other, and different
\* fingerprint inputs when they differ in one of these seven settings.
C19_FingerprintOrderIndependent ==
    pc = "checked" =>
        LET saved == cache.metadata[1].config_hash
        IN  /\ saved = get_config_hash(method_locals.config)
            /\ SameCacheSettings(method_locals.config, config)
                  <=> method_locals.current_hash = saved
            /\ method_locals.valid <=> method_locals.current_hash = saved

\* the cache was written with authors [b, B] and categories [hep, cs.L] and is
\* checked, and found valid, under authors [B, b] and categories [cs.L, hep]
C19_Witness ==
    /\ pc = "checked"
    /\ method_locals.config.authors = <<entry_b, entry_B>>
    /\ config.authors = <<entry_B, entry_b>>
    /\ method_locals.config.categories = <<cat_hep, cat_csl>>
    /\ config.categories = <<cat_csl, cat_hep>>
    /\ method_locals.current_hash = cache.metadata[1].config_hash
    /\ method_locals.valid

\* the kinds of contribution named in the match_reason of the candidate at
\* position p
ReasonKinds(p) == {papers[p].match_reason[i].kind : i \in DOMAIN papers[p].match_reason}

\* C21 as claimed: the match_reason of every scored candidate is the fallback
\* label exactly when it has no author match, no keyword match and a similarity
\* contribution of 0, and whenever one of its contributions is positive its
\* reason names a contribution.
C21_FallbackIffNothingFired ==
    Returned =>
        \A p \in Scored :
            /\ papers[p].match_reason = fallback_reason
                  <=> /\ ~HasAuthorMatch(p)
                      /\ DistinctKeywordsMatched(p) = 0
                      /\ scored[p].similarity_part = 0
            /\ (scored[p].author_part > 0 \/ scored[p].keyword_part > 0
                   \/ scored[p].similarity_part > 0)
                  => ReasonKinds(p) \cap {"Author", "Keywords", "Similarity"} # {}

\* C21 amended: the match_reason of every scored candidate names the author
\* contribution exactly when an author matched, the keyword contribution
\* exactly when a keyword matched and the similarity exactly when a similarity
\* above 0.3 was computed; it is the fallback label exactly when none of the
\* three is named, whatever the similarity contribution to the score.
C21_FallbackIffNothingReported ==
    Returned =>
        \A p \in Scored :
            /\ "Author" \in ReasonKinds(p) <=> HasAuthorMatch(p)
            /\ "Keywords" \in ReasonKinds(p) <=> DistinctKeywordsMatched(p) > 0
            /\ "Similarity" \in ReasonKinds(p) <=> scored[p].sim_score > report_above
            /\ papers[p].match_reason = fallback_reason
                  <=> /\ ~HasAuthorMatch(p)
                      /\ DistinctKeywordsMatched(p) = 0
                      /\ scored[p].sim_score <= report_above

\* a candidate with the fallback label whose similarity of 0.3 added to its
\* score, next to one whose similarity is reported
C21_Witness ==
    /\ Returned
    /\ \E p \in Scored : /\ papers[p].match_reason = fallback_reason
                         /\ scored[p].sim_score = report_above
                         /\ scored[p].similarity_part > 0
                         /\ ScoreOf(p) > 0
    /\ \E p \in Scored : "Similarity" \in ReasonKinds(p)

\* the candidate at position p with its score and match_reason blanked
Identity(paper) == [paper EXCEPT !.score = 0, !.match_reason = <<>>]

\* C22: a call of filter_and_rank leaves the input list as long and in the
\* order it was, changes no id, title, abstract, authors or categories, leaves
\* the candidates the exclusion rules reject with the score and match_reason
\* they had, leaves the reference papers as they were, and returns only
\* candidates of the input list that pass the exclusion rules.
C22_OnlySurvivorScoresChange ==
    [][(pc \in {"start", "rearranged"} /\ pc' \in {"ran", "ran_again"}) =>
          /\ Len(papers') = Len(papers)
          /\ \A p \in DOMAIN papers : Identity(papers'[p]) = Identity(papers[p])
          /\ \A p \in DOMAIN papers : ~PassesAllRules(p) => papers'[p] = papers[p]
          /\ reference_papers' = reference_papers
          /\ Range(filtered_papers') \subseteq ExclusionSurvivors]_vars

\* after the second call: a rejected candidate still carries the score of an
\* earlier run next to a survivor that was scored, whose stored author name is
\* not in normalized form; there are reference papers
C22_Witness ==
    /\ pc = "ran_again"
    /\ reference_papers # <<>>
    /\ \E p \in DOMAIN papers : /\ ~PassesAllRules(p)
                                /\ papers[p].score = 4200
                                /\ papers[p].match_reason # <<>>
    /\ \E p \in Scored : /\ papers[p].score \notin {0, 4200}
                         /\ papers[p].authors = <<name_upper>>
                         /\ p \in Range(filtered_papers)

\* what the first call of a repeated run left
FirstRun == method_locals.first

\* C23: with the configuration and the reference corpus fixed, the score and
\* match_reason a call of filter_and_rank stores in a candidate are those any
\* other call stores in it, whatever the other candidates of the list, their
\* order and the score and match_reason the candidate carried into the call;
\* two entries of one list for the same candidate get the same values too.
C23_ScoringIndependentOfList ==
    pc = "ran_again" =>
        \A p \in Scored :
            /\ \A q \in DOMAIN FirstRun.papers :
                  (FirstRun.scored[q].scored /\ FirstRun.papers[q].id = papers[p].id) =>
                     /\ papers[p].score = FirstRun.papers[q].score
                     /\ papers[p].match_reason = FirstRun.papers[q].match_reason
            /\ \A q \in Scored :
                  papers[q].id = papers[p].id =>
                     /\ papers[p].score = papers[q].score
                     /\ papers[p].match_reason = papers[q].match_reason

\* a candidate scored by both calls, with a positive similarity contribution:
\* it was second of two in the first call, carrying the values of an earlier
\* run, and is first in the second call, followed by a candidate the first call
\* did not see
C23_Witness ==
    /\ pc = "ran_again"
    /\ Len(papers) = 2 /\ Len(FirstRun.papers) = 2
    /\ 1 \in Scored /\ FirstRun.scored[2].scored
    /\ FirstRun.papers[2].id = papers[1].id
    /\ FirstRun.papers[1].id # papers[1].id
    /\ papers[2].id = OtherCandidate.id
    /\ scored[1].similarity_part > 0
    /\ papers[1].score \notin {0, 4200}

\* the last is_valid call, when nothing happened since
Answer == method_locals.answer[1]

\* what is known of the operations on the cache directory
History == method_locals.history

\* C24: is_valid(config, 24) answers true exactly when the papers file exists,
\* the metadata hold config_hash and timestamp, the stored hash is the
\* fingerprint of config and the cache is at most 24 hours old. So whatever
\* was saved since, it answers false after clear() until a save_papers, and
\* after save_papers(.., c) it answers true exactly for the configurations with
\* the fingerprint of c while the cache is at most 24 hours old.
C24_IsValid ==
    (pc = "cache" /\ method_locals.answer # <<>>) =>
        /\ Answer.valid
              <=> /\ cache.papers # <<>>
                  /\ cache.metadata # <<>>
                  /\ {"config_hash", "timestamp"} \subseteq DOMAIN cache.metadata[1]
                  /\ cache.metadata[1].config_hash = get_config_hash(Answer.config)
                  /\ method_locals.now - cache.metadata[1].timestamp <= max_age_hours
        /\ History.last = "clear" => ~Answer.valid
        /\ History.last = "save_papers" =>
              (Answer.valid
                 <=> /\ get_config_hash(Answer.config) = get_config_hash(History.config)
                     /\ method_locals.now - History.at <= max_age_hours)

\* 24 hours after save_papers, with the reference and the filtered papers
\* saved since, is_valid answers true for a configuration that lists the
\* authors of the saved one in another order
C24_Witness ==
    /\ pc = "cache" /\ method_locals.answer # <<>>
    /\ History.last = "save_papers"
    /\ method_locals.now - History.at = max_age_hours
    /\ Answer.valid
    /\ Answer.config # History.config
    /\ cache.reference # <<>> /\ cache.filtered # <<>>

\* the results of the three fetches of this run, in the order author fetch,
\* category fetch, keyword fetch
Fetched ==
    IF method_locals.fetched = <<>> THEN <<>>
    ELSE method_locals.fetched[1] \o method_locals.fetched[2] \o method_locals.fetched[3]

\* C25: the list a run is about to hand to filter_and_rank, fetched or loaded
\* from the papers cache, holds every id at most once; a fetched list holds
\* every fetched id, with the first paper fetched under that id.
C25_NoDuplicateIds ==
    /\ pc = "filter" =>
          \A i, j \in DOMAIN papers : papers[i].id = papers[j].id => i = j
    /\ (pc \in {"references", "filter"} /\ "fetch_all_papers" \in Range(steps)) =>
          /\ {papers[i].id : i \in DOMAIN papers} = {Fetched[i].id : i \in DOMAIN Fetched}
          /\ \A i \in DOMAIN papers :
                LET first == CHOOSE k \in DOMAIN Fetched :
                                 /\ Fetched[k].id = papers[i].id
                                 /\ \A j \in 1..(k - 1) : Fetched[j].id # papers[i].id
                IN  papers[i] = Fetched[first]

\* a run is about to filter two papers it loaded from the cache; the fetches
\* of the run that wrote the cache returned each of them more than once
C25_Witness ==
    /\ pc = "filter"
    /\ "load_papers" \in Range(steps)
    /\ Len(papers) = 2
    /\ papers[1].id # papers[2].id

\* C26: a run that loads its reference papers from the cache finds there the
\* reference papers fetched under a configuration with the fingerprint of its
\* own configuration, so for the authors it follows.
C26_CachedReferencesOfSameConfig ==
    (pc = "filter" /\ "load_reference_papers" \in Range(steps)) =>
        /\ method_locals.reference_config # <<>>
        /\ get_config_hash(method_locals.reference_config[1]) = get_config_hash(config)
        /\ method_locals.reference_config[1].authors = config.authors

\* the run's ranked output: the papers filter_and_rank returned
RankedOutput == Map(LAMBDA p : papers[p], filtered_papers)

\* C27: when a run without --pdf-only that reached the filter step ends, the
\* filtered-papers cache holds the ranked output of that run; a --pdf-only run
\* hands the generator the ranked output of the last such run, does no fetch,
\* no filtering and no cache write, and returns 1 when there is no filtered
\* cache.
C27_FilteredCacheIsLastOutput ==
    /\ (pc \in {"return_0", "return_1"} /\ "filter_and_rank" \in Range(steps)) =>
          cache.filtered = <<RankedOutput>>
    /\ (pc = "return_0" /\ args.pdf_only) =>
          <<method_locals.generated>> = method_locals.ranked
    /\ (pc \in {"return_0", "return_1"} /\ args.pdf_only) =>
          Range(steps) \subseteq {"load_filtered_papers", "generate"}
    /\ (pc = "return_1" /\ args.pdf_only /\ stdout # <<"Error">>) => cache.filtered = <<>>
    /\ (pc = "return_0" /\ args.pdf_only) => cache.filtered # <<>>

\* C28: the configuration with which a run fetches and filters has
\* days_back >= 1 and max_papers >= 1, with or without --days and --max-papers.
C28_EffectiveConfigIsValid ==
    pc \in {"fetch", "references", "filter", "generate"} =>
        /\ config.days_back >= 1
        /\ config.max_papers >= 1

\* C29: Config instances share no mutable state: after any assignments to the
\* settings of the instances, top-level or nested, Config.DEFAULT_CONFIG still
\* holds the pristine defaults and every Config holds exactly the settings of
\* its own file and its own assignments, whether or not a file was loaded.
C29_InstancesShareNoState ==
    pc \in {"constructed", "assigned", "assigned_nested"} =>
        /\ settings(method_locals.heap, DefaultsAt) = settings(ClassHeap, DefaultsAt)
        /\ \A i \in DOMAIN method_locals.instances :
              settings(method_locals.heap, method_locals.instances[i]) = method_locals.by_value[i]

\* C30: an author match is reported only when the matching candidate author
\* and a target author it matches both have a non-empty normalized form; a
\* name of punctuation and/or whitespace only, on either side, never produces
\* a match, and a candidate with no authors or an empty target list never
\* matches.
MatchedAuthor(p) == scored[p].match_reason[1].author

C30_MatchNeedsNonEmptyNames ==
    Returned =>
        \A p \in Scored :
            /\ scored[p].author_match =>
                  /\ normalize_author_name(MatchedAuthor(p)) # <<>>
                  /\ \E j \in DOMAIN config.authors :
                        LET target == normalize_author_name(config.authors[j])
                            normalized == normalize_author_name(MatchedAuthor(p))
                        IN  /\ target # <<>>
                            /\ contains(normalized, target) \/ contains(target, normalized)
            /\ (papers[p].authors = <<>> \/ config.authors = <<>>) => ~scored[p].author_match

====
